---- MODULE Spec2Model ----
(***************************************************************************)
(* Model of giantswarm/mcp-prometheus: the MCP tool handlers               *)
(* (internal/tools/prometheus/tools.go), the Prometheus client             *)
(* (internal/tools/prometheus/client.go) and the server context            *)
(* (internal/server/context.go).                                           *)
(*                                                                         *)
(* Texts.  A Go string is modelled as a sequence of pieces.  A piece       *)
(* [lit |-> s, n |-> k] stands for the first k bytes of the literal s; for *)
(* the one-byte literals "a" and "\n" it stands for k repetitions of that  *)
(* byte.  Newlines are always pieces of their own, so that the byte length *)
(* and the position of every newline of a text are exact.  The lines of    *)
(* TruncationAdvice and of the unlimited warning hold bytes outside ASCII: *)
(* each is a piece named by its first words, with the line's byte length.  *)
(***************************************************************************)
EXTENDS Integers, Sequences, FiniteSets, TLC

VARIABLES
    pc,             \* what the process is doing
    env,            \* the process environment (os.Getenv)
    sc,             \* the ServerContext
    defaultClient,  \* the Client built by RegisterPrometheusTools
    call,           \* the tool call being served: [tool, params]
    callClient,     \* the Client handed to the tool's handler
    handlerRan,     \* whether the tool's handler was entered
    sent,           \* the requests the call sent to Prometheus
    answered,       \* the answers Prometheus gave to those requests
    result,         \* the CallToolResult and Go error the call returned
    fmtIn,          \* arguments of formatQueryResult
    fmtOut,         \* value returned by formatQueryResult
    clientIn,       \* configuration given to NewClient
    clientOut,      \* Client returned by NewClient
    flight,         \* the API call in flight and the context of its tool call
    mutex,          \* ServerContext.mutex, a sync.RWMutex
    thread,         \* the callers of the ServerContext's methods
    lastSet,        \* value of the most recently completed SetDebugMode
    serve           \* the serve command: its transport, its report, its shutdown

vars == <<pc, env, sc, defaultClient, call, callClient, handlerRan, sent, answered,
          result, fmtIn, fmtOut, clientIn, clientOut, flight, mutex, thread, lastSet, serve>>

----------------------------------------------------------------------------
(* Bounds of the model *)

\* largest number of lines in a query result returned by Prometheus
MaxLines == 3

----------------------------------------------------------------------------
(* Strings *)

\* len(s) of a Go string literal of ASCII bytes
LitLen(s) == Len(s)

Piece(s, k) == [lit |-> s, n |-> k]
Lit(s) == Piece(s, LitLen(s))
NL(k) == Piece("\n", k)

RepeatedByte(s) == s \in {"a", "\n"}

RECURSIVE TextLen(_)
TextLen(t) == IF t = <<>> THEN 0 ELSE Head(t).n + TextLen(Tail(t))

\* a + b of Go strings; adjacent runs of the same byte are one piece
Cat(a, b) ==
    IF a = <<>> THEN b
    ELSE IF b = <<>> THEN a
    ELSE IF a[Len(a)].lit = b[1].lit /\ RepeatedByte(b[1].lit)
         THEN SubSeq(a, 1, Len(a) - 1)
              \o <<Piece(b[1].lit, a[Len(a)].n + b[1].n)>>
              \o Tail(b)
         ELSE a \o b

\* s[:k] of a Go string, for 0 <= k <= len(s)
RECURSIVE Take(_, _)
Take(t, k) ==
    IF k <= 0 \/ t = <<>> THEN <<>>
    ELSE IF Head(t).n <= k THEN <<Head(t)>> \o Take(Tail(t), k - Head(t).n)
    ELSE <<Piece(Head(t).lit, k)>>

\* the byte s[i] (0-based), named by the literal it belongs to
RECURSIVE ByteAt(_, _)
ByteAt(t, i) ==
    IF t = <<>> THEN "<out of range>"
    ELSE IF i < Head(t).n THEN Head(t).lit
    ELSE ByteAt(Tail(t), i - Head(t).n)

\* strings.LastIndex(s, "\n"): index of the last newline byte, -1 if none
RECURSIVE LastIndexNewline(_)
LastIndexNewline(t) ==
    IF t = <<>> THEN -1
    ELSE IF t[Len(t)].lit = "\n" THEN TextLen(t) - 1
    ELSE LastIndexNewline(SubSeq(t, 1, Len(t) - 1))

HasPrefix(t, p) == TextLen(p) <= TextLen(t) /\ Take(t, TextLen(p)) = p
HasSuffix(t, p) ==
    TextLen(p) <= TextLen(t) /\ Cat(Take(t, TextLen(t) - TextLen(p)), p) = t

----------------------------------------------------------------------------
(* Result formatting: tools.go *)

MaxResultLength == 50000

\* len(truncated) - 1000 in formatQueryResult: the trailing window in which a
\* newline is looked for
TruncationWindow == 1000

TruncationAdvice ==
    <<NL(2), Piece("RESULT TRUNCATED", 83),
      NL(2), Piece("To optimize your query", 58),
      NL(1), Piece("Adding more specific label filters", 88),
      NL(1), Piece("Using aggregation functions", 63),
      NL(1), Piece("Limiting time ranges", 45),
      NL(1), Piece("Using topk() or bottomk()", 65),
      NL(1), Piece("Filtering by specific metrics", 63),
      NL(2), Piece("To get the full untruncated result", 132)>>

warningMsg == <<Piece("WARNING: Unlimited output enabled", 105), NL(2)>>

\* resultStr without its first line
resultStrBare(resultType, res) ==
    Cat(<<Lit("Result Type: "), Lit(resultType), NL(1), Lit("Result: ")>>, res)

\* fmt.Sprintf("Query executed successfully.\nResult Type: %s\nResult: %+v", ...)
resultStr(resultType, res) ==
    Cat(<<Lit("Query executed successfully."), NL(1),
          Lit("Result Type: "), Lit(resultType), NL(1),
          Lit("Result: ")>>, res)

\* truncate with the cut one byte later, after the newline instead of
\* before it
truncateAfterNewline(str) ==
    LET truncated == Take(str, MaxResultLength)
        lastNewline == LastIndexNewline(truncated)
    IN  IF lastNewline > MaxResultLength - TruncationWindow
        THEN Take(truncated, lastNewline + 1)
        ELSE truncated

\* truncate cutting also at a newline on the edge of the window
truncateAtWindowEdge(str) ==
    LET truncated == Take(str, MaxResultLength)
        lastNewline == LastIndexNewline(truncated)
    IN  IF lastNewline >= MaxResultLength - TruncationWindow
        THEN Take(truncated, lastNewline)
        ELSE truncated

\* the cut of an overlong text: at the last newline of its first
\* MaxResultLength bytes if that lies in the trailing window, else at
\* MaxResultLength
truncate(str) ==
    LET truncated == Take(str, MaxResultLength)
        lastNewline == LastIndexNewline(truncated)
    IN  IF lastNewline > MaxResultLength - TruncationWindow
        THEN Take(truncated, lastNewline)
        ELSE truncated

\* formatQueryResult truncating from MaxResultLength on instead of above it
formatQueryResultFrom(resultType, res, unlimited) ==
    LET str == resultStr(resultType, res)
    IN  IF unlimited THEN Cat(warningMsg, str)
        ELSE IF TextLen(str) >= MaxResultLength
             THEN Cat(truncate(str), TruncationAdvice)
             ELSE str

formatQueryResult(resultType, res, unlimited) ==
    LET str == resultStr(resultType, res)
    IN  IF unlimited THEN Cat(warningMsg, str)
        ELSE IF TextLen(str) > MaxResultLength
             THEN Cat(truncate(str), TruncationAdvice)
             ELSE str

----------------------------------------------------------------------------
(* Server context: internal/server/context.go *)

\* server.PrometheusConfig
Config(url, username, password, token, orgID) ==
    [URL |-> url, Username |-> username, Password |-> password,
     Token |-> token, OrgID |-> orgID]

\* server.PrometheusConfig{}
EmptyConfig == Config("", "", "", "", "")

\* os.Getenv(name)
Getenv(e, name) == e[name]

\* NewServerContext that fills each empty field of the supplied
\* configuration from the environment
NewServerContextMerging(e, optConfig, optDebug) ==
    LET or(a, b) == IF a = "" THEN b ELSE a
    IN  [prometheusConfig |->
            Config(or(optConfig.URL, Getenv(e, "PROMETHEUS_URL")),
                   or(optConfig.Username, Getenv(e, "PROMETHEUS_USERNAME")),
                   or(optConfig.Password, Getenv(e, "PROMETHEUS_PASSWORD")),
                   or(optConfig.Token, Getenv(e, "PROMETHEUS_TOKEN")),
                   or(optConfig.OrgID, Getenv(e, "PROMETHEUS_ORGID"))),
         debugMode |-> optDebug,
         cancelSet |-> TRUE,
         cancelCalls |-> 0,
         parentDone |-> FALSE,
         ctxDone |-> FALSE]

\* NewServerContext(ctx, opts...): optConfig is the configuration given with
\* WithPrometheusConfig (EmptyConfig when the option is not used)
NewServerContext(e, optConfig, optDebug) ==
    [prometheusConfig |->
        IF optConfig.URL = ""
        THEN Config(Getenv(e, "PROMETHEUS_URL"),
                    Getenv(e, "PROMETHEUS_USERNAME"),
                    Getenv(e, "PROMETHEUS_PASSWORD"),
                    Getenv(e, "PROMETHEUS_TOKEN"),
                    Getenv(e, "PROMETHEUS_ORGID"))
        ELSE optConfig,
     debugMode |-> optDebug,
     cancelSet |-> TRUE,
     cancelCalls |-> 0,
     parentDone |-> FALSE,
     ctxDone |-> FALSE]

\* Shutdown that calls cancel without looking at sc.cancel
ShutdownCancellingAgain(s) ==
    [s EXCEPT !.ctxDone = TRUE, !.cancelCalls = @ + 1]

\* Shutdown whose cancel function does not end the context of the server
ShutdownWithoutCancel(s) ==
    IF s.cancelSet
    THEN [s EXCEPT !.cancelSet = FALSE, !.cancelCalls = @ + 1]
    ELSE s

\* the body of ServerContext.Shutdown: cancel is called when it is not nil,
\* which ends the context of the server, and is set to nil
Shutdown(s) ==
    IF s.cancelSet
    THEN [s EXCEPT !.ctxDone = TRUE, !.cancelSet = FALSE, !.cancelCalls = @ + 1]
    ELSE s

----------------------------------------------------------------------------
(* Prometheus client: internal/tools/prometheus/client.go *)

\* url.Parse(address) in api.NewClient of client_golang: the one address of
\* the model that does not parse is BadURL (a blank in the host name)
BadURL == "http://bad url"
urlParses(address) == address # BadURL

\* the round trippers NewClient stacks on http.DefaultTransport, outermost
\* first; http.DefaultTransport itself is the end of the sequence
\* authLayer with the two checks in the other order
authLayerBasicFirst(config) ==
    IF config.Username # "" /\ config.Password # ""
    THEN <<[kind |-> "basicAuthRoundTripper", token |-> "",
            username |-> config.Username, password |-> config.Password,
            orgID |-> ""]>>
    ELSE IF config.Token # ""
    THEN <<[kind |-> "bearerTokenRoundTripper", token |-> config.Token,
            username |-> "", password |-> "", orgID |-> ""]>>
    ELSE <<>>

authLayer(config) ==
    IF config.Token # ""
    THEN <<[kind |-> "bearerTokenRoundTripper", token |-> config.Token,
            username |-> "", password |-> "", orgID |-> ""]>>
    ELSE IF config.Username # "" /\ config.Password # ""
    THEN <<[kind |-> "basicAuthRoundTripper", token |-> "",
            username |-> config.Username, password |-> config.Password,
            orgID |-> ""]>>
    ELSE <<>>

orgIDLayer(config) ==
    IF config.OrgID # ""
    THEN <<[kind |-> "orgIDRoundTripper", token |-> "", username |-> "",
            password |-> "", orgID |-> config.OrgID]>>
    ELSE <<>>

\* a Client whose v1.API is nil
NilClient(config) == [client |-> FALSE, config |-> config, roundTripper |-> <<>>]

\* NewClient wrapping the org-id layer first and the authentication around it
NewClientAuthOutermost(config) ==
    IF config.URL = "" THEN NilClient(config)
    ELSE LET roundTripper == authLayer(config) \o orgIDLayer(config)
         IN  IF ~urlParses(config.URL) THEN NilClient(config)
             ELSE [client |-> TRUE, config |-> config,
                   roundTripper |-> roundTripper]

NewClient(config) ==
    IF config.URL = "" THEN NilClient(config)
    ELSE LET roundTripper == orgIDLayer(config) \o authLayer(config)
         IN  IF ~urlParses(config.URL) THEN NilClient(config)
             ELSE [client |-> TRUE, config |-> config,
                   roundTripper |-> roundTripper]

\* an outgoing http.Request before any round tripper has seen it
NewRequest(address, endpoint, args, opts, timeout) ==
    [url |-> address, endpoint |-> endpoint, args |-> args, opts |-> opts,
     parent |-> "Background", timeout |-> timeout,
     Authorization |-> <<>>, XScopeOrgID |-> <<>>, headerOrder |-> <<>>]

\* one RoundTrip method: what the layer does to the request before it calls
\* the next round tripper; headerOrder lists the headers in the order the
\* layers set them
layerRoundTrip(layer, req) ==
    CASE layer.kind = "orgIDRoundTripper" ->
            IF layer.orgID # ""
            THEN [req EXCEPT !.XScopeOrgID = <<layer.orgID>>,
                             !.headerOrder = Append(@, "X-Scope-OrgID")]
            ELSE req
      [] layer.kind = "bearerTokenRoundTripper" ->
            [req EXCEPT !.Authorization = <<"Bearer", layer.token>>,
                        !.headerOrder = Append(@, "Authorization")]
      [] layer.kind = "basicAuthRoundTripper" ->
            [req EXCEPT !.Authorization =
                            <<"Basic", layer.username, layer.password>>,
                        !.headerOrder = Append(@, "Authorization")]

\* the request as http.DefaultTransport sends it
RECURSIVE RoundTrip(_, _)
RoundTrip(roundTripper, req) ==
    IF roundTripper = <<>> THEN req
    ELSE RoundTrip(Tail(roundTripper), layerRoundTrip(Head(roundTripper), req))

\* buildPrometheusConfig(baseConfig, prometheusURL, orgID)
buildPrometheusConfig(e, baseConfig, prometheusURL, orgID) ==
    LET envURL == Getenv(e, "PROMETHEUS_URL")
        envOrgID == Getenv(e, "PROMETHEUS_ORGID")
        url == IF envURL # "" THEN envURL ELSE prometheusURL
        org == IF envOrgID # "" THEN envOrgID ELSE orgID
    IN  [ok |-> url # "",
         config |-> IF url # ""
                    THEN Config(url, baseConfig.Username, baseConfig.Password,
                                baseConfig.Token, org)
                    ELSE Config("", baseConfig.Username, baseConfig.Password,
                                baseConfig.Token, "")]

\* NewClientFromParams(prometheusURL, orgID, baseConfig, logger)
NewClientFromParams(e, prometheusURL, orgID, baseConfig) ==
    LET built == buildPrometheusConfig(e, baseConfig, prometheusURL, orgID)
        client == NewClient(built.config)
    IN  IF ~built.ok THEN [ok |-> FALSE, client |-> NilClient(EmptyConfig)]
        ELSE IF ~client.client
             THEN [ok |-> FALSE, client |-> NilClient(EmptyConfig)]
             ELSE [ok |-> TRUE, client |-> client]

----------------------------------------------------------------------------
(* Tool parameters: the untyped map request.Params.Arguments *)

\* a JSON value of the argument map; Absent is a key the map does not hold
Absent == [kind |-> "absent", s |-> "", items |-> <<>>]
Str(x) == [kind |-> "string", s |-> x, items |-> <<>>]
Number == [kind |-> "number", s |-> "42", items |-> <<>>]
Array(xs) == [kind |-> "array", s |-> "", items |-> xs]
True == [kind |-> "bool", s |-> "true", items |-> <<>>]

ParamKeys ==
    {"prometheus_url", "org_id", "query", "time", "start", "end", "step",
     "unlimited", "timeout", "limit", "stats", "lookback_delta", "start_time",
     "end_time", "matches", "metric", "label", "match_target"}

\* extractParams(request) of a request that names no argument
NoParams == [k \in ParamKeys |-> Absent]

\* val, ok := params[key].(string)
isString(params, key) == params[key].kind = "string"
asString(params, key) == IF isString(params, key) THEN params[key].s ELSE ""

getStringParam(params, key) ==
    IF isString(params, key) THEN params[key].s ELSE ""

RECURSIVE stringsOf(_)
stringsOf(xs) ==
    IF xs = <<>> THEN <<>>
    ELSE IF Head(xs).kind = "string" THEN <<Head(xs).s>> \o stringsOf(Tail(xs))
    ELSE stringsOf(Tail(xs))

\* extractStringArray(params, key); nil is the empty sequence
extractStringArray(params, key) ==
    IF params[key].kind = "array" THEN stringsOf(params[key].items) ELSE <<>>

\* the text of a dynamic string (%s, %v of a string)
S(x) == IF x = "" THEN <<>> ELSE <<Lit(x)>>

\* a *mcp.CallToolResult with one text content, and the Go error returned
\* beside it
ToolError(text) == [IsError |-> TRUE, Text |-> text, goErr |-> "nil"]
ToolText(text) == [IsError |-> FALSE, Text |-> text, goErr |-> "nil"]

\* createClientFromParams returning the default client without looking at it
createClientFromParamsAnyDefault(params, dflt) ==
    LET hasURL == isString(params, "prometheus_url")
        prometheusURL == asString(params, "prometheus_url")
        hasOrgID == isString(params, "org_id")
        orgID == asString(params, "org_id")
        config == [EmptyConfig EXCEPT
                      !.URL = IF hasURL /\ prometheusURL # ""
                              THEN prometheusURL ELSE "",
                      !.OrgID = IF hasOrgID /\ orgID # "" THEN orgID ELSE ""]
        client == NewClient(config)
    IN  IF ~hasURL /\ ~hasOrgID
        THEN [ok |-> TRUE, client |-> dflt, err |-> <<>>]
        ELSE IF config.URL = "" \/ ~client.client
        THEN [ok |-> FALSE, client |-> NilClient(EmptyConfig),
              err |-> <<Lit("prometheus_url parameter is required when using dynamic client configuration")>>]
        ELSE [ok |-> TRUE, client |-> client, err |-> <<>>]

\* createClientFromParams(params, defaultClient, sc)
createClientFromParams(params, dflt) ==
    LET hasURL == isString(params, "prometheus_url")
        prometheusURL == asString(params, "prometheus_url")
        hasOrgID == isString(params, "org_id")
        orgID == asString(params, "org_id")
        config == [EmptyConfig EXCEPT
                      !.URL = IF hasURL /\ prometheusURL # ""
                              THEN prometheusURL ELSE "",
                      !.OrgID = IF hasOrgID /\ orgID # "" THEN orgID ELSE ""]
        client == NewClient(config)
    IN  IF ~hasURL /\ ~hasOrgID
        THEN IF dflt.client
             THEN [ok |-> TRUE, client |-> dflt, err |-> <<>>]
             ELSE [ok |-> FALSE, client |-> NilClient(EmptyConfig),
                   err |-> <<Lit("prometheus_url parameter is required (no default Prometheus configuration available)")>>]
        ELSE IF config.URL = ""
        THEN [ok |-> FALSE, client |-> NilClient(EmptyConfig),
              err |-> <<Lit("prometheus_url parameter is required when using dynamic client configuration")>>]
        ELSE IF ~client.client
        THEN [ok |-> FALSE, client |-> NilClient(EmptyConfig),
              err |-> <<Lit("failed to initialize Prometheus client with URL: ")>>
                      \o S(config.URL) \o <<Lit(", OrgID: ")>> \o S(config.OrgID)]
        ELSE [ok |-> TRUE, client |-> client, err |-> <<>>]

----------------------------------------------------------------------------
(* Client operations: internal/tools/prometheus/client.go *)

\* context.WithTimeout(context.Background(), 30*time.Second), in seconds
DefaultTimeout == 30
\* context.WithTimeout(context.Background(), 60*time.Second), in seconds
RangeTimeout == 60

\* time.Parse(time.RFC3339, s) succeeds
RFC3339Times == {"2023-01-01T00:00:00Z", "2023-01-01T01:00:00Z"}
parseRFC3339(s) == s \in RFC3339Times

\* fmt.Sscanf(timeParam, "%d", &queryTime) with queryTime a time.Time: the
\* verb %d cannot scan into a struct, so Sscanf returns an error for every
\* input
sscanfTime(s) == FALSE

\* time.ParseDuration(s) and model.ParseDuration(s) in seconds, -1 for an
\* error
parseDuration(s) ==
    CASE s = "10s" -> 10
      [] s = "15s" -> 15
      [] s = "30s" -> 30
      [] s = "1m" -> 60
      [] s = "5m" -> 300
      [] OTHER -> -1

\* ParseUint that takes a sign
parseUintSigned(s) == s \in {"-1", "0", "20", "50", "100"}

\* strconv.ParseUint(s, 10, 64) succeeds
parseUint(s) == s \in {"0", "20", "50", "100"}

\* what a client method returns: an error (with its text) or success, and
\* the requests it sent on the way
OpErr(text, reqs) == [ok |-> FALSE, err |-> text, sent |-> reqs]
OpOk(reqs) == [ok |-> TRUE, err |-> <<>>, sent |-> reqs]

notInitialized == OpErr(<<Lit("Prometheus client not initialized")>>, <<>>)

\* apiCall sending the request again after a failure
apiCallRetrying(c, endpoint, args, opts, timeout, up, errPrefix) ==
    LET req == RoundTrip(c.roundTripper,
                         NewRequest(c.config.URL, endpoint, args, opts, timeout))
    IN  IF up.ok THEN OpOk(<<req>>)
        ELSE OpErr(<<Lit(errPrefix)>> \o S(up.err), <<req, req>>)

\* one call of the v1.API: the request passes the client's round trippers
\* and Prometheus answers with up
apiCall(c, endpoint, args, opts, timeout, up, errPrefix) ==
    LET req == RoundTrip(c.roundTripper,
                         NewRequest(c.config.URL, endpoint, args, opts, timeout))
    IN  IF up.ok THEN OpOk(<<req>>)
        ELSE OpErr(<<Lit(errPrefix)>> \o S(up.err), <<req>>)

\* the time argument of an instant query
queryTimeOk(timeParam) ==
    timeParam = "" \/ parseRFC3339(timeParam) \/ sscanfTime(timeParam)
queryTime(timeParam) == IF timeParam = "" THEN "time.Now()" ELSE timeParam

invalidTime(prefix, s) == <<Lit(prefix), Lit("parsing time "), Lit(s)>>

ExecuteQuery(c, query, timeParam, up) ==
    IF ~c.client THEN notInitialized
    ELSE IF ~queryTimeOk(timeParam)
    THEN OpErr(invalidTime("invalid time parameter: ", timeParam), <<>>)
    ELSE apiCall(c, "/api/v1/query", <<query, queryTime(timeParam)>>, {},
                 DefaultTimeout, up, "failed to execute query: ")

\* apiOptions passing on every limit that is given
apiOptionsUnparsed(options, timeout, defaultTimeout) ==
    (IF options.Limit # "" THEN {<<"limit", options.Limit>>} ELSE {})
    \cup (IF options.Stats # "" /\ options.Stats = "all"
          THEN {<<"stats", "all">>} ELSE {})
    \cup (IF options.LookbackDelta # "" /\ parseDuration(options.LookbackDelta) >= 0
          THEN {<<"lookback_delta", options.LookbackDelta>>} ELSE {})
    \cup (IF timeout # defaultTimeout
          THEN {<<"timeout", options.Timeout>>} ELSE {})

\* the []v1.Option built from QueryOptions
apiOptions(options, timeout, defaultTimeout) ==
    (IF options.Limit # "" /\ parseUint(options.Limit)
     THEN {<<"limit", options.Limit>>} ELSE {})
    \cup (IF options.Stats # "" /\ options.Stats = "all"
          THEN {<<"stats", "all">>} ELSE {})
    \cup (IF options.LookbackDelta # "" /\ parseDuration(options.LookbackDelta) >= 0
          THEN {<<"lookback_delta", options.LookbackDelta>>} ELSE {})
    \cup (IF timeout # defaultTimeout
          THEN {<<"timeout", options.Timeout>>} ELSE {})

\* optionsTimeout taking whatever time.ParseDuration returned
optionsTimeoutUnchecked(options, defaultTimeout) ==
    IF options.Timeout # "" THEN parseDuration(options.Timeout) ELSE defaultTimeout

optionsTimeout(options, defaultTimeout) ==
    IF options.Timeout # "" /\ parseDuration(options.Timeout) >= 0
    THEN parseDuration(options.Timeout)
    ELSE defaultTimeout

ExecuteQueryWithOptions(c, query, timeParam, options, up) ==
    IF ~c.client THEN notInitialized
    ELSE IF ~queryTimeOk(timeParam)
    THEN OpErr(invalidTime("invalid time parameter: ", timeParam), <<>>)
    ELSE LET timeout == optionsTimeout(options, DefaultTimeout)
         IN  apiCall(c, "/api/v1/query", <<query, queryTime(timeParam)>>,
                     apiOptions(options, timeout, DefaultTimeout),
                     timeout, up, "failed to execute query: ")

\* the argument checks shared by the two range query methods
rangeArgsError(start, end, step) ==
    IF ~parseRFC3339(start) THEN invalidTime("invalid start time: ", start)
    ELSE IF ~parseRFC3339(end) THEN invalidTime("invalid end time: ", end)
    ELSE IF parseDuration(step) < 0
    THEN <<Lit("invalid step duration: "), Lit("not a valid duration string"), Lit(step)>>
    ELSE <<>>

ExecuteRangeQuery(c, query, start, end, step, up) ==
    IF ~c.client THEN notInitialized
    ELSE IF rangeArgsError(start, end, step) # <<>>
    THEN OpErr(rangeArgsError(start, end, step), <<>>)
    ELSE apiCall(c, "/api/v1/query_range", <<query, start, end, step>>, {},
                 RangeTimeout, up, "failed to execute range query: ")

ExecuteRangeQueryWithOptions(c, query, start, end, step, options, up) ==
    IF ~c.client THEN notInitialized
    ELSE IF rangeArgsError(start, end, step) # <<>>
    THEN OpErr(rangeArgsError(start, end, step), <<>>)
    ELSE LET timeout == optionsTimeout(options, RangeTimeout)
         IN  apiCall(c, "/api/v1/query_range", <<query, start, end, step>>,
                     apiOptions(options, timeout, RangeTimeout),
                     timeout, up, "failed to execute range query: ")

\* the optional start and end of the discovery methods: empty is the zero
\* time.Time, anything else must parse as RFC3339
filterTimesError(startTime, endTime) ==
    IF startTime # "" /\ ~parseRFC3339(startTime)
    THEN invalidTime("invalid start time: ", startTime)
    ELSE IF endTime # "" /\ ~parseRFC3339(endTime)
    THEN invalidTime("invalid end time: ", endTime)
    ELSE <<>>

limitOption(limit) ==
    IF limit # "" /\ parseUint(limit) THEN {<<"limit", limit>>} ELSE {}

\* the matchers of a request, as one argument
matchArgs(matches) == <<"match[]">> \o matches

ListMetricsWithOptions(c, options, up) ==
    IF ~c.client THEN notInitialized
    ELSE IF filterTimesError(options.StartTime, options.EndTime) # <<>>
    THEN OpErr(filterTimesError(options.StartTime, options.EndTime), <<>>)
    ELSE apiCall(c, "/api/v1/label/__name__/values",
                 <<options.StartTime, options.EndTime>> \o matchArgs(options.Matches),
                 {}, DefaultTimeout, up, "failed to list metrics: ")

GetMetricMetadataWithOptions(c, metric, options, up) ==
    IF ~c.client THEN notInitialized
    ELSE apiCall(c, "/api/v1/metadata", <<metric, options.Limit>>, {},
                 DefaultTimeout, up, "failed to get metric metadata: ")

ListLabelNames(c, options, up) ==
    IF ~c.client THEN notInitialized
    ELSE IF filterTimesError(options.StartTime, options.EndTime) # <<>>
    THEN OpErr(filterTimesError(options.StartTime, options.EndTime), <<>>)
    ELSE apiCall(c, "/api/v1/labels",
                 <<options.StartTime, options.EndTime>> \o matchArgs(options.Matches),
                 limitOption(options.Limit), DefaultTimeout, up,
                 "failed to list label names: ")

ListLabelValues(c, label, options, up) ==
    IF ~c.client THEN notInitialized
    ELSE IF filterTimesError(options.StartTime, options.EndTime) # <<>>
    THEN OpErr(filterTimesError(options.StartTime, options.EndTime), <<>>)
    ELSE apiCall(c, "/api/v1/label/<label>/values",
                 <<label, options.StartTime, options.EndTime>>
                     \o matchArgs(options.Matches),
                 limitOption(options.Limit), DefaultTimeout, up,
                 "failed to list label values: ")

FindSeries(c, matches, options, up) ==
    IF ~c.client THEN notInitialized
    ELSE IF filterTimesError(options.StartTime, options.EndTime) # <<>>
    THEN OpErr(filterTimesError(options.StartTime, options.EndTime), <<>>)
    ELSE apiCall(c, "/api/v1/series",
                 <<options.StartTime, options.EndTime>> \o matchArgs(matches),
                 limitOption(options.Limit), DefaultTimeout, up,
                 "failed to find series: ")

\* plainCall going to the API without looking at the client
plainCallUnguarded(c, endpoint, up, errPrefix) ==
    apiCall(c, endpoint, <<>>, {}, DefaultTimeout, up, errPrefix)

\* the methods without arguments: GetTargets, GetRules, GetAlerts,
\* GetAlertManagers, GetConfig, GetFlags, GetBuildInfo, GetRuntimeInfo
plainCall(c, endpoint, up, errPrefix) ==
    IF ~c.client THEN notInitialized
    ELSE apiCall(c, endpoint, <<>>, {}, DefaultTimeout, up, errPrefix)

GetTargets(c, up) == plainCall(c, "/api/v1/targets", up, "failed to get targets: ")
GetRules(c, up) == plainCall(c, "/api/v1/rules", up, "failed to get rules: ")
GetAlerts(c, up) == plainCall(c, "/api/v1/alerts", up, "failed to get alerts: ")
GetAlertManagers(c, up) ==
    plainCall(c, "/api/v1/alertmanagers", up, "failed to get alert managers: ")
GetConfig(c, up) ==
    plainCall(c, "/api/v1/status/config", up, "failed to get config: ")
GetFlags(c, up) == plainCall(c, "/api/v1/status/flags", up, "failed to get flags: ")
GetBuildInfo(c, up) ==
    plainCall(c, "/api/v1/status/buildinfo", up, "failed to get build info: ")
GetRuntimeInfo(c, up) ==
    plainCall(c, "/api/v1/status/runtimeinfo", up, "failed to get runtime info: ")

GetTSDBStats(c, options, up) ==
    IF ~c.client THEN notInitialized
    ELSE apiCall(c, "/api/v1/status/tsdb", <<>>, limitOption(options.Limit),
                 DefaultTimeout, up, "failed to get TSDB stats: ")

QueryExemplars(c, query, start, end, up) ==
    IF ~c.client THEN notInitialized
    ELSE IF ~parseRFC3339(start)
    THEN OpErr(invalidTime("invalid start time: ", start), <<>>)
    ELSE IF ~parseRFC3339(end)
    THEN OpErr(invalidTime("invalid end time: ", end), <<>>)
    ELSE apiCall(c, "/api/v1/query_exemplars", <<query, start, end>>, {},
                 DefaultTimeout, up, "failed to query exemplars: ")

GetTargetsMetadata(c, matchTarget, metric, limit, up) ==
    IF ~c.client THEN notInitialized
    ELSE apiCall(c, "/api/v1/targets/metadata", <<matchTarget, metric, limit>>,
                 {}, DefaultTimeout, up, "failed to get targets metadata: ")

----------------------------------------------------------------------------
(* Tool handlers: internal/tools/prometheus/tools.go *)

\* what a handler returns, and the requests it sent on the way
Returned(res, reqs) == [result |-> res, sent |-> reqs]

\* the error result of a required parameter that is missing, empty or not a
\* string
required(name) ==
    Returned(ToolError(<<Lit("Error: "), Lit(name),
                         Lit(" parameter is required and must be a string")>>),
             <<>>)

\* failed returning the text as a result that is no error
failedAsText(prefix, r) == Returned(ToolText(Cat(prefix, r.err)), r.sent)

\* the error result of a failed client method
failed(prefix, r) == Returned(ToolError(Cat(prefix, r.err)), r.sent)

\* %d
DecLen(k) == IF k < 10 THEN 1 ELSE IF k < 100 THEN 2 ELSE IF k < 1000 THEN 3 ELSE 4
Num(k) == <<Piece(ToString(k), DecLen(k))>>

\* QueryOptions read from the parameters
queryOptions(params) ==
    [Timeout |-> getStringParam(params, "timeout"),
     Limit |-> getStringParam(params, "limit"),
     Stats |-> getStringParam(params, "stats"),
     LookbackDelta |-> getStringParam(params, "lookback_delta")]

anyOption(options) ==
    options.Timeout # "" \/ options.Limit # "" \/ options.Stats # ""
        \/ options.LookbackDelta # ""

\* handleExecuteQuery that does not validate the query parameter
handleExecuteQueryUnchecked(params, client, up) ==
    LET query == asString(params, "query")
        timeParam == asString(params, "time")
        unlimited == asString(params, "unlimited") = "true"
        options == queryOptions(params)
        r == IF anyOption(options)
             THEN ExecuteQueryWithOptions(client, query, timeParam, options, up)
             ELSE ExecuteQuery(client, query, timeParam, up)
    IN  IF ~r.ok THEN failed(<<Lit("Error executing query: ")>>, r)
        ELSE Returned(ToolText(formatQueryResult(up.resultType, up.data, unlimited)),
                      r.sent)

handleExecuteQuery(params, client, up) ==
    LET query == asString(params, "query")
        timeParam == asString(params, "time")
        unlimited == asString(params, "unlimited") = "true"
        options == queryOptions(params)
        r == IF anyOption(options)
             THEN ExecuteQueryWithOptions(client, query, timeParam, options, up)
             ELSE ExecuteQuery(client, query, timeParam, up)
    IN  IF ~isString(params, "query") \/ query = "" THEN required("query")
        ELSE IF ~r.ok THEN failed(<<Lit("Error executing query: ")>>, r)
        ELSE Returned(ToolText(formatQueryResult(up.resultType, up.data, unlimited)),
                      r.sent)

\* handleExecuteRangeQuery that never reads the unlimited parameter
handleExecuteRangeQueryLimited(params, client, up) ==
    LET query == asString(params, "query")
        start == asString(params, "start")
        end == asString(params, "end")
        step == asString(params, "step")
        options == queryOptions(params)
        r == IF anyOption(options)
             THEN ExecuteRangeQueryWithOptions(client, query, start, end, step,
                                               options, up)
             ELSE ExecuteRangeQuery(client, query, start, end, step, up)
    IN  IF ~isString(params, "query") \/ query = "" THEN required("query")
        ELSE IF ~isString(params, "start") \/ start = "" THEN required("start")
        ELSE IF ~isString(params, "end") \/ end = "" THEN required("end")
        ELSE IF ~isString(params, "step") \/ step = "" THEN required("step")
        ELSE IF ~r.ok THEN failed(<<Lit("Error executing range query: ")>>, r)
        ELSE Returned(ToolText(formatQueryResult(up.resultType, up.data, FALSE)),
                      r.sent)

handleExecuteRangeQuery(params, client, up) ==
    LET query == asString(params, "query")
        start == asString(params, "start")
        end == asString(params, "end")
        step == asString(params, "step")
        unlimited == asString(params, "unlimited") = "true"
        options == queryOptions(params)
        r == IF anyOption(options)
             THEN ExecuteRangeQueryWithOptions(client, query, start, end, step,
                                               options, up)
             ELSE ExecuteRangeQuery(client, query, start, end, step, up)
    IN  IF ~isString(params, "query") \/ query = "" THEN required("query")
        ELSE IF ~isString(params, "start") \/ start = "" THEN required("start")
        ELSE IF ~isString(params, "end") \/ end = "" THEN required("end")
        ELSE IF ~isString(params, "step") \/ step = "" THEN required("step")
        ELSE IF ~r.ok THEN failed(<<Lit("Error executing range query: ")>>, r)
        ELSE Returned(ToolText(formatQueryResult(up.resultType, up.data, unlimited)),
                      r.sent)

\* %+v of a slice: its elements between brackets
RECURSIVE elements(_)
elements(items) ==
    IF items = <<>> THEN <<>>
    ELSE IF Len(items) = 1 THEN S(items[1])
    ELSE S(items[1]) \o <<Lit(" ")>> \o elements(Tail(items))
listText(items) == <<Lit("[")>> \o elements(items) \o <<Lit("]")>>

\* the numbered lines "i. item\n" of a list response, from entry i on; after
\* the entry with index cap - 1 (0-based) the line "... and K more <what>\n"
\* ends the list
RECURSIVE entriesText(_, _, _)
entriesText(items, lo, hi) ==
    IF lo > hi THEN <<>>
    ELSE IF lo = hi
         THEN Num(lo) \o <<Lit(". ")>> \o S(items[lo]) \o <<NL(1)>>
         ELSE LET mid == (lo + hi) \div 2
              IN  Cat(entriesText(items, lo, mid), entriesText(items, mid + 1, hi))

numbered(items, i, cap, what) ==
    LET last == IF Len(items) < cap THEN Len(items) ELSE cap
    IN  IF Len(items) - 1 >= cap - 1
        THEN Cat(entriesText(items, i, last),
                 <<Lit("... and ")>> \o Num(Len(items) - cap)
                 \o <<Lit(" more "), Lit(what), NL(1)>>)
        ELSE entriesText(items, i, last)

\* fmt.Sprintf("\nWarnings: %v", result.Warnings) when there are warnings
warningsText(warnings) ==
    IF Len(warnings) > 0
    THEN <<NL(1), Lit("Warnings: ")>> \o listText(warnings)
    ELSE <<>>

\* the caps of list_metrics and list_label_values, and of find_series
ListCap == 100
SeriesCap == 50

handleListMetrics(params, client, up) ==
    LET options == [StartTime |-> getStringParam(params, "start_time"),
                    EndTime |-> getStringParam(params, "end_time"),
                    Matches |-> extractStringArray(params, "matches")]
        r == ListMetricsWithOptions(client, options, up)
    IN  IF ~r.ok THEN failed(<<Lit("Error listing metrics: ")>>, r)
        ELSE IF Len(up.items) = 0
        THEN Returned(ToolText(<<Lit("No metrics found")>>), r.sent)
        ELSE Returned(ToolText(
                 Cat(<<Lit("Found ")>> \o Num(Len(up.items))
                         \o <<Lit(" metrics:"), NL(1)>>,
                     numbered(up.items, 1, ListCap, "metrics"))),
                 r.sent)

handleGetMetricMetadata(params, client, up) ==
    LET metric == asString(params, "metric")
        options == [Limit |-> getStringParam(params, "limit")]
        r == GetMetricMetadataWithOptions(client, metric, options, up)
    IN  IF ~isString(params, "metric") \/ metric = "" THEN required("metric")
        ELSE IF ~r.ok
        THEN failed(<<Lit("Error getting metadata for metric '"), Lit(metric),
                      Lit("': ")>>, r)
        ELSE Returned(ToolText(Cat(<<Lit("Metadata for metric '"), Lit(metric),
                                     Lit("':"), NL(1)>>, up.data)),
                      r.sent)

handleGetTargets(params, client, up) ==
    LET r == GetTargets(client, up)
    IN  IF ~r.ok THEN failed(<<Lit("Error getting targets: ")>>, r)
        ELSE Returned(ToolText(
                 Cat(<<Lit("Targets information:"), NL(1),
                       Lit("Active targets: ")>> \o Num(Len(up.items))
                         \o <<NL(1), Lit("Dropped targets: ")>>
                         \o Num(Len(up.dropped))
                         \o <<NL(2), Lit("Active Targets: ")>>,
                     listText(up.items) \o <<NL(1), Lit("Dropped Targets: ")>>
                         \o listText(up.dropped))),
                 r.sent)

labelOptions(params) ==
    [StartTime |-> getStringParam(params, "start_time"),
     EndTime |-> getStringParam(params, "end_time"),
     Matches |-> extractStringArray(params, "matches"),
     Limit |-> getStringParam(params, "limit")]

handleListLabelNames(params, client, up) ==
    LET r == ListLabelNames(client, labelOptions(params), up)
        list == IF Len(up.items) = 0 THEN <<Lit("No label names found")>>
                ELSE Cat(<<Lit("Found ")>> \o Num(Len(up.items))
                             \o <<Lit(" label names:"), NL(1)>>,
                         numbered(up.items, 1, Len(up.items) + 1, ""))
    IN  IF ~r.ok THEN failed(<<Lit("Error listing label names: ")>>, r)
        ELSE Returned(ToolText(Cat(list, warningsText(up.warnings))), r.sent)

handleListLabelValues(params, client, up) ==
    LET label == asString(params, "label")
        r == ListLabelValues(client, label, labelOptions(params), up)
        list == IF Len(up.items) = 0
                THEN <<Lit("No values found for label '"), Lit(label), Lit("'")>>
                ELSE Cat(<<Lit("Found ")>> \o Num(Len(up.items))
                             \o <<Lit(" values for label '"), Lit(label),
                                  Lit("':"), NL(1)>>,
                         numbered(up.items, 1, ListCap, "values"))
    IN  IF ~isString(params, "label") \/ label = "" THEN required("label")
        ELSE IF ~r.ok
        THEN failed(<<Lit("Error listing label values for '"), Lit(label),
                      Lit("': ")>>, r)
        ELSE Returned(ToolText(Cat(list, warningsText(up.warnings))), r.sent)

handleFindSeries(params, client, up) ==
    LET matches == extractStringArray(params, "matches")
        options == [StartTime |-> getStringParam(params, "start_time"),
                    EndTime |-> getStringParam(params, "end_time"),
                    Limit |-> getStringParam(params, "limit")]
        r == FindSeries(client, matches, options, up)
        list == IF Len(up.items) = 0
                THEN <<Lit("No series found matching the given criteria")>>
                ELSE Cat(<<Lit("Found ")>> \o Num(Len(up.items))
                             \o <<Lit(" series:"), NL(1)>>,
                         numbered(up.items, 1, SeriesCap, "series"))
    IN  IF Len(matches) = 0
        THEN Returned(ToolError(<<Lit("Error: matches parameter is required and must be an array of strings")>>),
                      <<>>)
        ELSE IF ~r.ok THEN failed(<<Lit("Error finding series: ")>>, r)
        ELSE Returned(ToolText(Cat(list, warningsText(up.warnings))), r.sent)

\* titled putting its text through the truncation of the query results
titledTruncated(r, up, errPrefix, title) ==
    IF ~r.ok THEN failed(<<Lit(errPrefix)>>, r)
    ELSE LET text == Cat(<<Lit(title), NL(1)>>, up.data)
         IN  Returned(ToolText(IF TextLen(text) > MaxResultLength
                               THEN Cat(truncate(text), TruncationAdvice)
                               ELSE text),
                      r.sent)

\* the handlers that print the upstream value under a title
titled(r, up, errPrefix, title) ==
    IF ~r.ok THEN failed(<<Lit(errPrefix)>>, r)
    ELSE Returned(ToolText(Cat(<<Lit(title), NL(1)>>, up.data)), r.sent)

handleGetRules(params, client, up) ==
    titled(GetRules(client, up), up, "Error getting rules: ", "Prometheus Rules:")
handleGetAlerts(params, client, up) ==
    titled(GetAlerts(client, up), up, "Error getting alerts: ", "Active Alerts:")
handleGetAlertManagers(params, client, up) ==
    titled(GetAlertManagers(client, up), up, "Error getting alert managers: ",
           "AlertManager Discovery:")
handleGetConfig(params, client, up) ==
    titled(GetConfig(client, up), up, "Error getting config: ",
           "Prometheus Configuration:")
handleGetFlags(params, client, up) ==
    titled(GetFlags(client, up), up, "Error getting flags: ",
           "Prometheus Runtime Flags:")
handleGetBuildInfo(params, client, up) ==
    titled(GetBuildInfo(client, up), up, "Error getting build info: ",
           "Prometheus Build Information:")
handleGetRuntimeInfo(params, client, up) ==
    titled(GetRuntimeInfo(client, up), up, "Error getting runtime info: ",
           "Prometheus Runtime Information:")
handleGetTSDBStats(params, client, up) ==
    titled(GetTSDBStats(client, [Limit |-> getStringParam(params, "limit")], up),
           up, "Error getting TSDB stats: ", "TSDB Statistics:")
handleGetTargetsMetadata(params, client, up) ==
    titled(GetTargetsMetadata(client, getStringParam(params, "match_target"),
                              getStringParam(params, "metric"),
                              getStringParam(params, "limit"), up),
           up, "Error getting targets metadata: ", "Targets Metadata:")

handleQueryExemplars(params, client, up) ==
    LET query == asString(params, "query")
        start == asString(params, "start")
        end == asString(params, "end")
        r == QueryExemplars(client, query, start, end, up)
    IN  IF ~isString(params, "query") \/ query = "" THEN required("query")
        ELSE IF ~isString(params, "start") \/ start = "" THEN required("start")
        ELSE IF ~isString(params, "end") \/ end = "" THEN required("end")
        ELSE IF ~r.ok THEN failed(<<Lit("Error querying exemplars: ")>>, r)
        ELSE Returned(ToolText(Cat(<<Lit("Exemplars for query '"), Lit(query),
                                     Lit("':"), NL(1)>>, up.data)),
                      r.sent)

\* the client createClientFromParams makes for a call
clientOf(params, dflt) == createClientFromParams(params, dflt).client

\* the function withDynamicPrometheusClient registers for a handler: what the
\* call returns, the client it ran the handler with, whether the handler ran;
\* ran is what the handler returns for params and clientOf(params, dflt)
withDynamicPrometheusClient(ran, params, dflt) ==
    LET made == createClientFromParams(params, dflt)
    IN  IF ~made.ok
        THEN [result |-> ToolError(Cat(<<Lit("Error creating Prometheus client: ")>>,
                                       made.err)),
              sent |-> <<>>, client |-> made.client, handlerRan |-> FALSE]
        ELSE [result |-> ran.result, sent |-> ran.sent,
              client |-> made.client, handlerRan |-> TRUE]

----------------------------------------------------------------------------
(* Inputs *)

PromA == "http://prom-a:9090"
PromB == "http://prom-b:9090"

\* an environment: the five variables NewServerContext reads
Environment(url, username, password, token, orgID) ==
    [PROMETHEUS_URL |-> url, PROMETHEUS_USERNAME |-> username,
     PROMETHEUS_PASSWORD |-> password, PROMETHEUS_TOKEN |-> token,
     PROMETHEUS_ORGID |-> orgID]

\* the credentials of an environment: none, basic, bearer, or both
Credentials ==
    {<<"", "", "">>, <<"user", "secret", "">>, <<"", "", "token-a">>,
     <<"user", "secret", "token-a">>}

Environments ==
    {Environment(u, a[1], a[2], a[3], o) :
        u \in {"", PromA}, a \in Credentials, o \in {"", "org-a"}}

\* the configurations NewClient is tried on
Configs ==
    {Config(u, n, p, t, o) :
        u \in {"", PromA, BadURL}, n \in {"", "user"}, p \in {"", "secret"},
        t \in {"", "token-a"}, o \in {"", "org-a"}}

\* the values a call may give for the two connection parameters
ConnectionParams ==
    {[NoParams EXCEPT !["prometheus_url"] = u, !["org_id"] = o] :
        u \in {Absent, Number, Str(""), Str(PromB), Str(BadURL)},
        o \in {Absent, Number, Str(""), Str("org-b")}}

\* the values a call may give for a required string parameter
Required(valid) == {Absent, Number, Str(""), Str(valid)}

\* the values a call may give for a required time parameter: those of a
\* required string, the valid one in RFC3339, and a string that is no time
TimeRequired(valid) == Required(valid) \cup {Str("yesterday")}

\* the values a call may give for the timeout of a query
TimeoutValues == {Absent, Str("10s"), Str("soon")}

\* the values a call may give for the matches of find_series
MatchesValues ==
    {Absent, Str("up"), Array(<<>>), Array(<<Number>>),
     Array(<<Str("up")>>), Array(<<Number, Str("up")>>)}

\* the texts Prometheus may return as the value of a query: up to MaxLines
\* lines of the byte "a", of the given lengths, joined by newlines
RECURSIVE linesText(_)
linesText(lens) ==
    IF lens = <<>> THEN <<>>
    ELSE LET line == IF Head(lens) = 0 THEN <<>> ELSE <<Piece("a", Head(lens))>>
         IN  IF Len(lens) = 1 THEN line
             ELSE Cat(Cat(line, <<NL(1)>>), linesText(Tail(lens)))

SeqsUpTo(X, n) == UNION {[1..k -> X] : k \in 0..n}

\* line lengths that put the serialized text on both sides of
\* MaxResultLength, and its last newline on both sides of the window
LineLens == {0, 999, 1000, 48943, 48944, 49943}
ResultTexts == {linesText(l) : l \in SeqsUpTo(LineLens, MaxLines)}

ResultTypes == {"vector", "matrix", "scalar", "string"}

\* an answer of Prometheus to one request
Answer(ok, err, resultType, data, items) ==
    [ok |-> ok, err |-> err, resultType |-> resultType, data |-> data,
     items |-> items, dropped |-> <<>>, warnings |-> <<>>]

UpFail == Answer(FALSE, "server returned HTTP status 500", "", <<>>, <<>>)
UpEmpty == Answer(TRUE, "", "vector", <<>>, <<>>)
UpSome == Answer(TRUE, "", "vector", linesText(<<999, 1000>>), <<"up", "go_info">>)
NoAnswer == Answer(FALSE, "", "", <<>>, <<>>)

\* an answer whose value is longer than MaxResultLength
UpLong ==
    Answer(TRUE, "", "matrix", linesText(<<49943, 1000>>), <<"up", "go_info">>)

Upstreams == {UpFail, UpSome, UpLong}

----------------------------------------------------------------------------
(* The server: startup and tool calls *)

NoCall == [tool |-> "", params |-> NoParams]
NoResult == [IsError |-> FALSE, Text |-> <<>>, goErr |-> ""]
NoFormat == [resultType |-> "", result |-> <<>>, unlimited |-> FALSE]

\* no API call in flight: no tool call whose context could be cancelled
NoFlight ==
    [incoming |-> "none", state |-> "idle", elapsed |-> 0,
     up |-> NoAnswer, onAnswer |-> NoResult, onDone |-> NoResult]

\* the callers of the ServerContext's methods
Callers == {"t1", "t2", "t3"}

\* sync.RWMutex, unlocked: w is the writer that has announced itself, readers
\* hold the shared lock, waiting are the readers blocked by the writer
FreeMutex == [w |-> "", readers |-> {}, waiting |-> {}]

\* a caller that is in no method
NotCalling ==
    [pc |-> "idle", op |-> "", arg |-> FALSE, ret |-> FALSE, err |-> "",
     cancelled |-> FALSE]

\* a time.Duration: n nanoseconds or n seconds, n below 10^9
Duration(n, unit) == [n |-> n, unit |-> unit]
DurationLess(a, b) ==
    IF a.unit = b.unit THEN a.n < b.n ELSE a.unit = "ns"

\* no serve command is looked at
NotServing ==
    [transport |-> "", auth |-> "", signalled |-> FALSE,
     deadline |-> Duration(0, "ns"), took |-> Duration(0, "ns"),
     shutdownErr |-> "", ret |-> ""]

Idle ==
    /\ serve = NotServing
    /\ flight = NoFlight
    /\ mutex = FreeMutex
    /\ thread = [t \in Callers |-> NotCalling]
    /\ lastSet = FALSE
    /\ call = NoCall
    /\ callClient = NilClient(EmptyConfig)
    /\ handlerRan = FALSE
    /\ sent = <<>>
    /\ answered = NoAnswer
    /\ result = NoResult

NoFormatting == fmtIn = NoFormat /\ fmtOut = <<>>
NoBuilding == clientIn = EmptyConfig /\ clientOut = NilClient(EmptyConfig)

\* runServe up to the start of the transport: NewServerContext reads the
\* environment, RegisterPrometheusTools builds the default client
Started(e) ==
    /\ env = e
    /\ sc = NewServerContext(e, EmptyConfig, FALSE)
    /\ defaultClient = NewClient(NewServerContext(e, EmptyConfig, FALSE).prometheusConfig)

Init ==
    /\ pc = "serving"
    /\ \E e \in Environments : Started(e)
    /\ Idle
    /\ NoFormatting
    /\ NoBuilding

\* Serve keeping the client of the call as the default client
ServeKeepingClient(tool, ran, params, up) ==
    LET out == withDynamicPrometheusClient(ran, params, defaultClient)
    IN  /\ call' = [tool |-> tool, params |-> params]
        /\ callClient' = out.client
        /\ handlerRan' = out.handlerRan
        /\ sent' = out.sent
        /\ answered' = IF out.sent = <<>> THEN NoAnswer ELSE up
        /\ result' = out.result
        /\ defaultClient' = IF out.handlerRan THEN out.client ELSE defaultClient
        /\ UNCHANGED <<pc, env, sc, fmtIn, fmtOut, clientIn, clientOut, flight, mutex, thread, lastSet, serve>>

\* one tool call, from the registered function to its return; the variables
\* of the call keep what it did until Return forgets them.  The server takes
\* the next call when it is idle
Serve(tool, ran, params, up) ==
    LET out == withDynamicPrometheusClient(ran, params, defaultClient)
    IN  /\ call' = [tool |-> tool, params |-> params]
        /\ callClient' = out.client
        /\ handlerRan' = out.handlerRan
        /\ sent' = out.sent
        /\ answered' = IF out.sent = <<>> THEN NoAnswer ELSE up
        /\ result' = out.result
        /\ UNCHANGED <<pc, env, sc, defaultClient, fmtIn, fmtOut, clientIn, clientOut, flight, mutex, thread, lastSet, serve>>

\* the call is over: nothing of it is kept
Return ==
    /\ call # NoCall
    /\ call' = NoCall
    /\ callClient' = NilClient(EmptyConfig)
    /\ handlerRan' = FALSE
    /\ sent' = <<>>
    /\ answered' = NoAnswer
    /\ result' = NoResult
    /\ UNCHANGED <<pc, env, sc, defaultClient, fmtIn, fmtOut, clientIn, clientOut, flight, mutex, thread, lastSet, serve>>

With(params, key, value) == [params EXCEPT ![key] = value]

CallExecuteQuery ==
    /\ call = NoCall
    /\ \E c \in ConnectionParams, q \in Required("up"), t \in TimeoutValues,
       up \in Upstreams :
        LET params == With(With(c, "query", q), "timeout", t)
        IN  Serve("execute_query",
                  handleExecuteQuery(params, clientOf(params, defaultClient), up),
                  params, up)

CallExecuteRangeQuery ==
    /\ call = NoCall
    /\ \E c \in ConnectionParams, q \in Required("up"),
       s \in TimeRequired("2023-01-01T00:00:00Z"),
       e \in Required("2023-01-01T01:00:00Z"), st \in Required("1m"),
       t \in {Absent, Str("10s")}, up \in Upstreams :
        LET params == With(With(With(With(With(c, "query", q), "start", s),
                                     "end", e), "step", st), "timeout", t)
        IN  Serve("execute_range_query",
                  handleExecuteRangeQuery(params, clientOf(params, defaultClient), up),
                  params, up)

CallListMetrics ==
    /\ call = NoCall
    /\ \E c \in ConnectionParams, st \in {Absent, Str("yesterday")}, up \in Upstreams :
        LET params == With(c, "start_time", st)
        IN  Serve("list_metrics",
                  handleListMetrics(params, clientOf(params, defaultClient), up),
                  params, up)

CallGetMetricMetadata ==
    /\ call = NoCall
    /\ \E c \in ConnectionParams, m \in Required("up"), up \in Upstreams :
        LET params == With(c, "metric", m)
        IN  Serve("get_metric_metadata",
                  handleGetMetricMetadata(params, clientOf(params, defaultClient), up),
                  params, up)

CallListLabelNames ==
    /\ call = NoCall
    /\ \E c \in ConnectionParams, up \in Upstreams :
        Serve("list_label_names",
              handleListLabelNames(c, clientOf(c, defaultClient), up),
              c, up)

CallListLabelValues ==
    /\ call = NoCall
    /\ \E c \in ConnectionParams, l \in Required("job"), up \in Upstreams :
        LET params == With(c, "label", l)
        IN  Serve("list_label_values",
                  handleListLabelValues(params, clientOf(params, defaultClient), up),
                  params, up)

CallFindSeries ==
    /\ call = NoCall
    /\ \E c \in ConnectionParams, m \in MatchesValues, up \in Upstreams :
        LET params == With(c, "matches", m)
        IN  Serve("find_series",
                  handleFindSeries(params, clientOf(params, defaultClient), up),
                  params, up)

CallGetTargets ==
    /\ call = NoCall
    /\ \E c \in ConnectionParams, up \in Upstreams :
        Serve("get_targets",
              handleGetTargets(c, clientOf(c, defaultClient), up),
              c, up)

CallGetBuildInfo ==
    /\ call = NoCall
    /\ \E c \in ConnectionParams, up \in Upstreams :
        Serve("get_build_info",
              handleGetBuildInfo(c, clientOf(c, defaultClient), up),
              c, up)

CallGetRuntimeInfo ==
    /\ call = NoCall
    /\ \E c \in ConnectionParams, up \in Upstreams :
        Serve("get_runtime_info",
              handleGetRuntimeInfo(c, clientOf(c, defaultClient), up),
              c, up)

CallGetFlags ==
    /\ call = NoCall
    /\ \E c \in ConnectionParams, up \in Upstreams :
        Serve("get_flags",
              handleGetFlags(c, clientOf(c, defaultClient), up),
              c, up)

CallGetConfig ==
    /\ call = NoCall
    /\ \E c \in ConnectionParams, up \in Upstreams :
        Serve("get_config",
              handleGetConfig(c, clientOf(c, defaultClient), up),
              c, up)

CallGetAlerts ==
    /\ call = NoCall
    /\ \E c \in ConnectionParams, up \in Upstreams :
        Serve("get_alerts",
              handleGetAlerts(c, clientOf(c, defaultClient), up),
              c, up)

CallGetAlertManagers ==
    /\ call = NoCall
    /\ \E c \in ConnectionParams, up \in Upstreams :
        Serve("get_alertmanagers",
              handleGetAlertManagers(c, clientOf(c, defaultClient), up),
              c, up)

CallGetRules ==
    /\ call = NoCall
    /\ \E c \in ConnectionParams, up \in Upstreams :
        Serve("get_rules",
              handleGetRules(c, clientOf(c, defaultClient), up),
              c, up)

CallGetTSDBStats ==
    /\ call = NoCall
    /\ \E c \in ConnectionParams, up \in Upstreams :
        Serve("get_tsdb_stats",
              handleGetTSDBStats(c, clientOf(c, defaultClient), up),
              c, up)

CallQueryExemplars ==
    /\ call = NoCall
    /\ \E c \in ConnectionParams, q \in Required("up"),
       s \in Required("2023-01-01T00:00:00Z"),
       e \in TimeRequired("2023-01-01T01:00:00Z"), up \in Upstreams :
        LET params == With(With(With(c, "query", q), "start", s), "end", e)
        IN  Serve("query_exemplars",
                  handleQueryExemplars(params, clientOf(params, defaultClient), up),
                  params, up)

CallGetTargetsMetadata ==
    /\ call = NoCall
    /\ \E c \in ConnectionParams, up \in Upstreams :
        Serve("get_targets_metadata",
              handleGetTargetsMetadata(c, clientOf(c, defaultClient), up),
              c, up)

Next ==
    \/ CallExecuteQuery
    \/ CallExecuteRangeQuery
    \/ CallListMetrics
    \/ CallGetMetricMetadata
    \/ CallListLabelNames
    \/ CallListLabelValues
    \/ CallFindSeries
    \/ CallGetTargets
    \/ CallGetBuildInfo
    \/ CallGetRuntimeInfo
    \/ CallGetFlags
    \/ CallGetConfig
    \/ CallGetAlerts
    \/ CallGetAlertManagers
    \/ CallGetRules
    \/ CallGetTSDBStats
    \/ CallQueryExemplars
    \/ CallGetTargetsMetadata
    \/ Return

Spec == Init /\ [][Next]_vars

----------------------------------------------------------------------------
(* The query tools with their optional parameters *)

NoEnvironment == Environment("", "", "", "", "")

QueryEnvironments ==
    {Environment(PromA, "", "", "", ""),
     Environment(PromA, "user", "secret", "token-a", "org-a")}

QueryLineLens == {0, 1000, 48944}
QueryResultTexts == {linesText(l) : l \in SeqsUpTo(QueryLineLens, MaxLines)}

QueryUpstreams ==
    {UpFail} \cup {Answer(TRUE, "", t, d, <<>>) :
                      t \in {"vector", "matrix"}, d \in QueryResultTexts}

\* the optional parameters of the two query tools
QueryParams ==
    {[NoParams EXCEPT !["prometheus_url"] = u, !["query"] = q,
                      !["unlimited"] = ul, !["timeout"] = t] :
        u \in {Absent, Str(PromB)}, q \in {Absent, Str("up")},
        ul \in {Absent, Number, Str("true"), Str("false")},
        t \in {Absent, Str("10s")}}

TimeValues ==
    {Absent, Str("2023-01-01T00:00:00Z"), Str("1672531200"), Str("yesterday")}

InitQuery ==
    /\ pc = "serving"
    /\ \E e \in QueryEnvironments : Started(e)
    /\ Idle
    /\ NoFormatting
    /\ NoBuilding

QueryExecute ==
    /\ call = NoCall
    /\ \E p \in QueryParams, t \in TimeValues, up \in QueryUpstreams :
        LET params == With(p, "time", t)
        IN  Serve("execute_query",
                  handleExecuteQuery(params, clientOf(params, defaultClient), up),
                  params, up)

QueryExecuteRange ==
    /\ call = NoCall
    /\ \E p \in QueryParams, st \in {Str("1m"), Str("soon")}, up \in QueryUpstreams :
        LET params == With(With(With(p, "start", Str("2023-01-01T00:00:00Z")), "end", Str("2023-01-01T01:00:00Z")), "step", st)
        IN  Serve("execute_range_query",
                  handleExecuteRangeQuery(params, clientOf(params, defaultClient), up),
                  params, up)

NextQuery ==
    \/ QueryExecute
    \/ QueryExecuteRange
    \/ Return

SpecQuery == InitQuery /\ [][NextQuery]_vars

----------------------------------------------------------------------------
(* The query tools with optional parameters that can and cannot be used *)

OptionParams ==
    {[NoParams EXCEPT !["query"] = Str("up"), !["timeout"] = t, !["limit"] = l,
                      !["stats"] = s, !["lookback_delta"] = d,
                      !["unlimited"] = ul] :
        t \in {Absent, Number, Str("soon"), Str("10s")},
        l \in {Absent, Number, Str("-1"), Str("20")},
        s \in {Absent, Str("some"), Str("all")},
        d \in {Absent, Number, Str("long"), Str("5m")},
        ul \in {Absent, True, Str("TRUE"), Str("true")}}

InitOptions ==
    /\ pc = "serving"
    /\ \E e \in QueryEnvironments : Started(e)
    /\ Idle
    /\ NoFormatting
    /\ NoBuilding

OptionsExecute ==
    /\ call = NoCall
    /\ \E p \in OptionParams, up \in Upstreams :
        Serve("execute_query",
              handleExecuteQuery(p, clientOf(p, defaultClient), up), p, up)

OptionsExecuteRange ==
    /\ call = NoCall
    /\ \E p \in OptionParams, up \in Upstreams :
        LET params == With(With(With(p, "start", Str("2023-01-01T00:00:00Z")),
                                "end", Str("2023-01-01T01:00:00Z")),
                           "step", Str("1m"))
        IN  Serve("execute_range_query",
                  handleExecuteRangeQuery(params, clientOf(params, defaultClient), up),
                  params, up)

NextOptions ==
    \/ OptionsExecute
    \/ OptionsExecuteRange
    \/ Return

SpecOptions == InitOptions /\ [][NextOptions]_vars

----------------------------------------------------------------------------
(* formatQueryResult on its own *)

FormatInputs ==
    {[resultType |-> t, result |-> d, unlimited |-> u] :
        t \in ResultTypes, d \in ResultTexts, u \in BOOLEAN}

InitFormat ==
    /\ pc = "format"
    /\ Started(NoEnvironment)
    /\ Idle
    /\ NoBuilding
    /\ fmtIn \in FormatInputs
    /\ fmtOut = <<>>

Format ==
    /\ pc = "format"
    /\ pc' = "formatted"
    /\ fmtOut' = formatQueryResult(fmtIn.resultType, fmtIn.result, fmtIn.unlimited)
    /\ UNCHANGED <<env, sc, defaultClient, call, callClient, handlerRan, sent,
                   answered, result, fmtIn, clientIn, clientOut, flight, mutex, thread, lastSet, serve>>

NextFormat == Format

SpecFormat == InitFormat /\ [][NextFormat]_vars

----------------------------------------------------------------------------
(* NewClient on its own, and a request through the client it returns *)

InitClient ==
    /\ pc = "new"
    /\ clientIn \in Configs
    /\ env = NoEnvironment
    /\ sc = NewServerContext(NoEnvironment, clientIn, FALSE)
    /\ defaultClient = NilClient(EmptyConfig)
    /\ Idle
    /\ NoFormatting
    /\ clientOut = NilClient(EmptyConfig)

Build ==
    /\ pc = "new"
    /\ pc' = "built"
    /\ clientOut' = NewClient(clientIn)
    /\ UNCHANGED <<env, sc, defaultClient, call, callClient, handlerRan, sent,
                   answered, result, fmtIn, fmtOut, clientIn, flight, mutex, thread, lastSet, serve>>

\* RegisterPrometheusTools(s, sc): builds the default client from the
\* configuration of the ServerContext, adds the tools and returns nil
Register ==
    /\ pc = "built"
    /\ pc' = "registered"
    /\ defaultClient' = NewClient(sc.prometheusConfig)
    /\ result' = [IsError |-> FALSE, Text |-> <<>>, goErr |-> "nil"]
    /\ UNCHANGED <<env, sc, call, callClient, handlerRan, sent, answered,
                   fmtIn, fmtOut, clientIn, clientOut, flight, mutex, thread, lastSet, serve>>

\* the methods of Client
Methods ==
    {"ExecuteQuery", "ExecuteQueryWithOptions", "ExecuteRangeQuery",
     "ExecuteRangeQueryWithOptions", "ListMetrics", "GetMetricMetadata",
     "GetTargets", "ListLabelNames", "ListLabelValues", "FindSeries",
     "GetRules", "GetAlerts", "GetAlertManagers", "GetConfig", "GetFlags",
     "GetBuildInfo", "GetRuntimeInfo", "GetTSDBStats", "QueryExemplars",
     "GetTargetsMetadata"}

\* one call of a method of the client, with arguments that parse except for
\* the start time given
method(name, c, start, up) ==
    LET end == "2023-01-01T01:00:00Z"
        noQueryOptions == [Timeout |-> "", Limit |-> "", Stats |-> "",
                           LookbackDelta |-> ""]
        filters == [StartTime |-> "", EndTime |-> "", Matches |-> <<>>,
                    Limit |-> ""]
    IN  CASE name = "ExecuteQuery" -> ExecuteQuery(c, "up", "", up)
          [] name = "ExecuteQueryWithOptions" ->
                ExecuteQueryWithOptions(c, "up", "", noQueryOptions, up)
          [] name = "ExecuteRangeQuery" ->
                ExecuteRangeQuery(c, "up", start, end, "1m", up)
          [] name = "ExecuteRangeQueryWithOptions" ->
                ExecuteRangeQueryWithOptions(c, "up", start, end, "1m",
                                             noQueryOptions, up)
          [] name = "ListMetrics" -> ListMetricsWithOptions(c, filters, up)
          [] name = "GetMetricMetadata" ->
                GetMetricMetadataWithOptions(c, "up", [Limit |-> ""], up)
          [] name = "GetTargets" -> GetTargets(c, up)
          [] name = "ListLabelNames" -> ListLabelNames(c, filters, up)
          [] name = "ListLabelValues" -> ListLabelValues(c, "job", filters, up)
          [] name = "FindSeries" -> FindSeries(c, <<"up">>, filters, up)
          [] name = "GetRules" -> GetRules(c, up)
          [] name = "GetAlerts" -> GetAlerts(c, up)
          [] name = "GetAlertManagers" -> GetAlertManagers(c, up)
          [] name = "GetConfig" -> GetConfig(c, up)
          [] name = "GetFlags" -> GetFlags(c, up)
          [] name = "GetBuildInfo" -> GetBuildInfo(c, up)
          [] name = "GetRuntimeInfo" -> GetRuntimeInfo(c, up)
          [] name = "GetTSDBStats" -> GetTSDBStats(c, [Limit |-> ""], up)
          [] name = "QueryExemplars" -> QueryExemplars(c, "up", start, end, up)
          [] name = "GetTargetsMetadata" -> GetTargetsMetadata(c, "", "", "", up)

\* a method of the client is called
Use ==
    /\ pc \in {"built", "registered"}
    /\ pc' = "used"
    /\ \E name \in Methods, start \in {"2023-01-01T00:00:00Z", "yesterday"},
          up \in {UpFail, UpSome} :
        LET r == method(name, clientOut, start, up)
        IN  /\ call' = [tool |-> name, params |-> NoParams]
            /\ sent' = r.sent
            /\ answered' = IF r.sent = <<>> THEN NoAnswer ELSE up
            /\ result' = [IsError |-> ~r.ok, Text |-> r.err, goErr |-> ""]
    /\ UNCHANGED <<env, sc, defaultClient, callClient, handlerRan,
                   fmtIn, fmtOut, clientIn, clientOut, flight, mutex, thread, lastSet, serve>>

NextClient ==
    \/ Build
    \/ Register
    \/ Use

SpecClient == InitClient /\ [][NextClient]_vars

----------------------------------------------------------------------------
(* A tool call whose API call takes time: the context of the call may be
   cancelled and the deadline of the request may pass before Prometheus
   answers *)

\* what the API returns when the context of the request is done
UpDeadline == Answer(FALSE, "context deadline exceeded", "", <<>>, <<>>)
UpCanceled == Answer(FALSE, "context canceled", "", <<>>, <<>>)

\* the deadlines a request can have, in seconds
Deadlines == {parseDuration("10s"), DefaultTimeout, RangeTimeout}

\* ctx.Done() of the request's context: its deadline has passed, or the
\* context it was derived from is done; context.Background() is never done
requestDone(req, incoming, elapsed) ==
    \/ elapsed >= req.timeout
    \/ req.parent = "incoming" /\ incoming = "cancelled"

InitCancel ==
    /\ pc = "serving"
    /\ \E e \in QueryEnvironments : Started(e)
    /\ Idle
    /\ NoFormatting
    /\ NoBuilding

\* the tool call up to the point where its request is on the wire; a call
\* that sends nothing has returned
Begin(tool, params, up, out, late) ==
    /\ call' = [tool |-> tool, params |-> params]
    /\ callClient' = out.client
    /\ handlerRan' = out.handlerRan
    /\ sent' = out.sent
    /\ answered' = NoAnswer
    /\ result' = IF out.sent = <<>> THEN out.result ELSE NoResult
    /\ flight' = [incoming |-> "live",
                  state |-> IF out.sent = <<>> THEN "returned" ELSE "inflight",
                  elapsed |-> 0, up |-> up,
                  onAnswer |-> out.result, onDone |-> late.result]
    /\ UNCHANGED <<pc, env, sc, defaultClient, fmtIn, fmtOut, clientIn, clientOut, mutex, thread, lastSet, serve>>

BeginExecuteQuery ==
    /\ call = NoCall
    /\ \E u \in {Absent, Str(PromB)}, t \in TimeoutValues, up \in {UpFail, UpSome} :
        LET params == With(With(With(NoParams, "prometheus_url", u), "query", Str("up")), "timeout", t)
        IN  Begin("execute_query", params, up,
                  withDynamicPrometheusClient(
                      handleExecuteQuery(params, clientOf(params, defaultClient), up),
                      params, defaultClient),
                  withDynamicPrometheusClient(
                      handleExecuteQuery(params, clientOf(params, defaultClient), UpDeadline),
                      params, defaultClient))

BeginExecuteRangeQuery ==
    /\ call = NoCall
    /\ \E u \in {Absent, Str(PromB)}, up \in {UpFail, UpSome} :
        LET params == With(With(With(With(With(NoParams, "prometheus_url", u), "query", Str("up")), "start", Str("2023-01-01T00:00:00Z")), "end", Str("2023-01-01T01:00:00Z")), "step", Str("1m"))
        IN  Begin("execute_range_query", params, up,
                  withDynamicPrometheusClient(
                      handleExecuteRangeQuery(params, clientOf(params, defaultClient), up),
                      params, defaultClient),
                  withDynamicPrometheusClient(
                      handleExecuteRangeQuery(params, clientOf(params, defaultClient), UpDeadline),
                      params, defaultClient))

BeginGetTargetsMetadata ==
    /\ call = NoCall
    /\ \E c \in ConnectionParams, up \in {UpFail, UpSome} :
        Begin("get_targets_metadata", c, up,
              withDynamicPrometheusClient(
                  handleGetTargetsMetadata(c, clientOf(c, defaultClient), up),
                  c, defaultClient),
              withDynamicPrometheusClient(
                  handleGetTargetsMetadata(c, clientOf(c, defaultClient), UpDeadline),
                  c, defaultClient))

\* the caller cancels the context of the tool call; a request in flight ends
\* when that makes its own context done
CancelIncoming ==
    /\ flight.incoming = "live"
    /\ flight.state = "inflight"
    /\ IF requestDone(sent[1], "cancelled", flight.elapsed)
       THEN /\ flight' = [flight EXCEPT !.incoming = "cancelled", !.state = "cancelled"]
            /\ answered' = UpCanceled
            /\ result' = [flight.onDone EXCEPT !.Text =
                              [i \in DOMAIN @ |->
                                  IF @[i] = Lit(UpDeadline.err)
                                  THEN Lit(UpCanceled.err) ELSE @[i]]]
       ELSE /\ flight' = [flight EXCEPT !.incoming = "cancelled"]
            /\ UNCHANGED <<answered, result>>
    /\ UNCHANGED <<pc, env, sc, defaultClient, call, callClient, handlerRan, sent,
                   fmtIn, fmtOut, clientIn, clientOut, mutex, thread, lastSet, serve>>

\* time passes while the request is in flight, up to its deadline, where the
\* API returns the error of the context
Tick ==
    /\ flight.state = "inflight"
    /\ \E t \in Deadlines :
        /\ t > flight.elapsed
        /\ t <= sent[1].timeout
        /\ IF requestDone(sent[1], flight.incoming, t)
           THEN /\ flight' = [flight EXCEPT !.elapsed = t, !.state = "deadline"]
                /\ answered' = UpDeadline
                /\ result' = flight.onDone
           ELSE /\ flight' = [flight EXCEPT !.elapsed = t]
                /\ UNCHANGED <<answered, result>>
    /\ UNCHANGED <<pc, env, sc, defaultClient, call, callClient, handlerRan, sent,
                   fmtIn, fmtOut, clientIn, clientOut, mutex, thread, lastSet, serve>>

\* Prometheus answers the request in flight and the handler returns
Respond ==
    /\ flight.state = "inflight"
    /\ flight' = [flight EXCEPT !.state = "answered"]
    /\ answered' = flight.up
    /\ result' = flight.onAnswer
    /\ UNCHANGED <<pc, env, sc, defaultClient, call, callClient, handlerRan, sent,
                   fmtIn, fmtOut, clientIn, clientOut, mutex, thread, lastSet, serve>>

\* the call is over
Finish ==
    /\ flight.state \in {"returned", "answered", "deadline", "cancelled"}
    /\ flight' = NoFlight
    /\ call' = NoCall
    /\ callClient' = NilClient(EmptyConfig)
    /\ handlerRan' = FALSE
    /\ sent' = <<>>
    /\ answered' = NoAnswer
    /\ result' = NoResult
    /\ UNCHANGED <<pc, env, sc, defaultClient, fmtIn, fmtOut, clientIn, clientOut, mutex, thread, lastSet, serve>>

NextCancel ==
    \/ BeginExecuteQuery
    \/ BeginExecuteRangeQuery
    \/ BeginGetTargetsMetadata
    \/ CancelIncoming
    \/ Tick
    \/ Respond
    \/ Finish

SpecCancel == InitCancel /\ [][NextCancel]_vars

----------------------------------------------------------------------------
(* The methods of ServerContext called by concurrent callers:
   internal/server/context.go.  Each method takes sc.mutex, reads or writes
   one field and releases the mutex on return (defer) *)

ReadMethods == {"Context", "IsDebugMode", "Logger", "PrometheusConfig"}
WriteMethods == {"SetDebugMode", "Shutdown"}

\* RLock that lets the reader in whatever the writers do
rlockAdmitsAlways(m) == m = m

\* sync.RWMutex.RLock returns at once: no writer holds or awaits the lock
rlockAdmits(m) == m.w = ""

\* sync.RWMutex.Lock returns: the caller is the announced writer and the
\* readers that held the lock have left
lockAdmits(m, t) == m.w = t /\ m.readers = {}

InitContext ==
    /\ pc = "serving"
    /\ \E e \in QueryEnvironments, d \in BOOLEAN :
        /\ env = e
        /\ sc = NewServerContext(e, EmptyConfig, d)
        /\ defaultClient = NewClient(NewServerContext(e, EmptyConfig, d).prometheusConfig)
        /\ lastSet = d
    /\ flight = NoFlight
    /\ serve = NotServing
    /\ mutex = FreeMutex
    /\ thread = [t \in Callers |-> NotCalling]
    /\ call = NoCall
    /\ callClient = NilClient(EmptyConfig)
    /\ handlerRan = FALSE
    /\ sent = <<>>
    /\ answered = NoAnswer
    /\ result = NoResult
    /\ NoFormatting
    /\ NoBuilding

ContextUnchanged ==
    UNCHANGED <<pc, env, defaultClient, call, callClient, handlerRan, sent,
                answered, result, fmtIn, fmtOut, clientIn, clientOut, flight, serve>>

\* a caller enters a reading method and calls sc.mutex.RLock(): it holds the
\* shared lock at once, or sleeps until the writer unlocks
CallRead(t) ==
    /\ thread[t].pc = "idle"
    /\ \E op \in ReadMethods :
        IF rlockAdmits(mutex)
        THEN /\ mutex' = [mutex EXCEPT !.readers = @ \cup {t}]
             /\ thread' = [thread EXCEPT ![t] = [NotCalling EXCEPT !.pc = "read", !.op = op]]
        ELSE /\ mutex' = [mutex EXCEPT !.waiting = @ \cup {t}]
             /\ thread' = [thread EXCEPT ![t] = [NotCalling EXCEPT !.pc = "rwait", !.op = op]]
    /\ UNCHANGED <<sc, lastSet, serve>>
    /\ ContextUnchanged

\* the return expression of the reading method, evaluated under the shared
\* lock; only the value of IsDebugMode is kept
Read(t) ==
    /\ thread[t].pc = "read"
    /\ thread' = [thread EXCEPT ![t].pc = "runlock",
                                ![t].ret = IF thread[t].op = "IsDebugMode"
                                           THEN sc.debugMode ELSE FALSE]
    /\ UNCHANGED <<sc, mutex, lastSet, serve>>
    /\ ContextUnchanged

\* the deferred sc.mutex.RUnlock(), and the method returns
RUnlock(t) ==
    /\ thread[t].pc = "runlock"
    /\ mutex' = [mutex EXCEPT !.readers = @ \ {t}]
    /\ thread' = [thread EXCEPT ![t] = NotCalling]
    /\ UNCHANGED <<sc, lastSet, serve>>
    /\ ContextUnchanged

\* a caller enters SetDebugMode(enabled) or Shutdown() and calls
\* sc.mutex.Lock()
CallWrite(t) ==
    /\ thread[t].pc = "idle"
    /\ \E op \in WriteMethods, enabled \in BOOLEAN :
        /\ op = "Shutdown" => ~enabled
        /\ thread' = [thread EXCEPT ![t] = [NotCalling EXCEPT !.pc = "lock", !.op = op, !.arg = enabled]]
    /\ UNCHANGED <<sc, mutex, lastSet, serve>>
    /\ ContextUnchanged

\* Lock, first half: the caller gets the writers' mutex and announces itself;
\* from now on RLock blocks
Announce(t) ==
    /\ thread[t].pc = "lock"
    /\ mutex.w = ""
    /\ mutex' = [mutex EXCEPT !.w = t]
    /\ thread' = [thread EXCEPT ![t].pc = "lockwait"]
    /\ UNCHANGED <<sc, lastSet, serve>>
    /\ ContextUnchanged

\* Lock, second half: the readers have left and Lock returns
Lock(t) ==
    /\ thread[t].pc = "lockwait"
    /\ lockAdmits(mutex, t)
    /\ thread' = [thread EXCEPT ![t].pc = "write"]
    /\ UNCHANGED <<sc, mutex, lastSet, serve>>
    /\ ContextUnchanged

\* the body of the writing method, under the exclusive lock
Write(t) ==
    /\ thread[t].pc = "write"
    /\ sc' = IF thread[t].op = "SetDebugMode"
             THEN [sc EXCEPT !.debugMode = thread[t].arg]
             ELSE Shutdown(sc)
    /\ thread' = [thread EXCEPT ![t].pc = "unlock",
                                ![t].err = IF thread[t].op = "Shutdown"
                                           THEN "nil" ELSE "",
                                ![t].cancelled = thread[t].op = "Shutdown"
                                                 /\ sc.cancelSet]
    /\ UNCHANGED <<mutex, lastSet, serve>>
    /\ ContextUnchanged

\* the deferred sc.mutex.Unlock(): the sleeping readers get the shared lock,
\* and the method returns
Unlock(t) ==
    /\ thread[t].pc = "unlock"
    /\ mutex' = [w |-> "", readers |-> mutex.waiting, waiting |-> {}]
    /\ thread' = [u \in Callers |->
                    IF u = t THEN NotCalling
                    ELSE IF u \in mutex.waiting THEN [thread[u] EXCEPT !.pc = "read"]
                    ELSE thread[u]]
    /\ lastSet' = IF thread[t].op = "SetDebugMode" THEN thread[t].arg ELSE lastSet
    /\ UNCHANGED sc
    /\ ContextUnchanged

\* the steps of a method that has been entered
Proceed(t) ==
    \/ Read(t)
    \/ RUnlock(t)
    \/ Lock(t)
    \/ Write(t)
    \/ Unlock(t)

NextContext ==
    \E t \in Callers :
        \/ CallRead(t)
        \/ CallWrite(t)
        \/ Announce(t)
        \/ Proceed(t)

SpecContext == InitContext /\ [][NextContext]_vars

\* the scheduler runs every goroutine that can run; a sync.Mutex hands the
\* lock to a goroutine that keeps waiting for it (starvation mode), so a
\* writer that can announce itself again and again does so
FairSpecContext ==
    /\ SpecContext
    /\ \A t \in Callers : WF_vars(Proceed(t)) /\ SF_vars(Announce(t))

\* the context given to NewServerContext is cancelled by its owner: the
\* context derived from it by context.WithCancel is done with it
CancelParent ==
    /\ ~sc.parentDone
    /\ sc' = [sc EXCEPT !.parentDone = TRUE, !.ctxDone = TRUE]
    /\ UNCHANGED <<mutex, thread, lastSet>>
    /\ ContextUnchanged

NextLifecycle ==
    \/ NextContext
    \/ CancelParent

SpecLifecycle == InitContext /\ [][NextLifecycle]_vars

----------------------------------------------------------------------------
(* NewServerContext on its own: the environment of the process and the
   configuration given with WithPrometheusConfig (the zero value when the
   option is not given) *)

InitNewContext ==
    /\ pc = "new"
    /\ env \in Environments
    /\ clientIn \in Configs
    /\ sc = NewServerContext(NoEnvironment, EmptyConfig, FALSE)
    /\ defaultClient = NilClient(EmptyConfig)
    /\ Idle
    /\ NoFormatting
    /\ clientOut = NilClient(EmptyConfig)

\* NewServerContext(ctx, WithDebugMode(d), WithPrometheusConfig(clientIn))
Construct ==
    /\ pc = "new"
    /\ pc' = "constructed"
    /\ \E d \in BOOLEAN : sc' = NewServerContext(env, clientIn, d)
    /\ UNCHANGED <<env, defaultClient, call, callClient, handlerRan, sent,
                   answered, result, fmtIn, fmtOut, clientIn, clientOut, flight,
                   mutex, thread, lastSet, serve>>

NextNewContext == Construct

SpecNewContext == InitNewContext /\ [][NextNewContext]_vars

----------------------------------------------------------------------------
(* The serve command: runServe, runSSEServer and runStreamableHTTPServer of
   cmd/serve.go.  The command reports the configuration, registers the tools,
   serves calls until a signal arrives or the transport stops by itself, and
   shuts the transport down *)

\* the timeout given to context.WithTimeout for the shutdown: a
\* time.Duration, which counts nanoseconds
ShutdownTimeout == 30

\* the "Authentication:" line runServe prints
reportedAuth(config) ==
    IF config.Username # "" /\ config.Password # "" THEN "Basic auth"
    ELSE IF config.Token # "" THEN "Bearer token"
    ELSE "None"

\* every combination of empty and non-empty credentials
ServeEnvironments ==
    {Environment(PromA, n, p, t, o) :
        n \in {"", "user"}, p \in {"", "secret"}, t \in {"", "token-a"},
        o \in {"", "org-a"}}

\* the transports that are shut down on a signal
Transports == {"sse", "streamable-http"}

\* how long Shutdown of the transport needs to drain its connections
ShutdownNeeds ==
    {Duration(0, "ns"), Duration(29, "ns"), Duration(30, "ns"),
     Duration(1, "s"), Duration(29, "s"), Duration(31, "s")}

\* the error prefix of each transport
shutdownPrefix(transport) ==
    IF transport = "sse" THEN "error shutting down SSE server: "
    ELSE "error shutting down HTTP server: "
stoppedPrefix(transport) ==
    IF transport = "sse" THEN "SSE server stopped with error: "
    ELSE "HTTP server stopped with error: "

\* runServe up to the select of the transport
InitServe ==
    /\ pc = "serving"
    /\ \E e \in ServeEnvironments : Started(e)
    /\ \E tr \in Transports :
        serve = [NotServing EXCEPT !.transport = tr,
                                   !.auth = reportedAuth(sc.prometheusConfig)]
    /\ flight = NoFlight
    /\ mutex = FreeMutex
    /\ thread = [t \in Callers |-> NotCalling]
    /\ lastSet = FALSE
    /\ call = NoCall
    /\ callClient = NilClient(EmptyConfig)
    /\ handlerRan = FALSE
    /\ sent = <<>>
    /\ answered = NoAnswer
    /\ result = NoResult
    /\ NoFormatting
    /\ NoBuilding

\* a tool call served through the default client
ServeCall ==
    /\ pc = "serving"
    /\ call = NoCall
    /\ \E up \in {UpFail, UpSome} :
        Serve("get_targets",
              handleGetTargets(NoParams, clientOf(NoParams, defaultClient), up),
              NoParams, up)

ServeReturn == pc = "serving" /\ Return

\* SIGINT or SIGTERM: the context of signal.NotifyContext is done, the select
\* takes its first case and calls Shutdown of the transport under
\* context.WithTimeout(context.Background(), 30)
Signal ==
    /\ pc = "serving"
    /\ pc' = "stopping"
    /\ serve' = [serve EXCEPT !.signalled = TRUE,
                              !.deadline = Duration(ShutdownTimeout, "ns")]
    /\ sc' = [sc EXCEPT !.parentDone = TRUE, !.ctxDone = TRUE]
    /\ UNCHANGED <<env, defaultClient, call, callClient, handlerRan, sent, answered,
                   result, fmtIn, fmtOut, clientIn, clientOut, flight, mutex,
                   thread, lastSet>>

\* Shutdown of the transport returns: nil when it was done before the
\* deadline of its context, the error of the context otherwise; the command
\* returns nil or the wrapped error, and the deferred Shutdown of the
\* ServerContext runs
ShutdownReturns ==
    /\ pc = "stopping"
    /\ pc' = "stopped"
    /\ \E need \in ShutdownNeeds :
        LET err == IF DurationLess(need, serve.deadline) THEN ""
                   ELSE "context deadline exceeded"
        IN  serve' = [serve EXCEPT !.took = need, !.shutdownErr = err,
                                   !.ret = IF err = "" THEN "nil"
                                           ELSE shutdownPrefix(serve.transport)]
    /\ sc' = Shutdown(sc)
    /\ UNCHANGED <<env, defaultClient, call, callClient, handlerRan, sent, answered,
                   result, fmtIn, fmtOut, clientIn, clientOut, flight, mutex,
                   thread, lastSet>>

\* the transport stops by itself, with an error or without
ServerDone ==
    /\ pc = "serving"
    /\ pc' = "stopped"
    /\ \E err \in {"", "listen tcp :8080: bind: address already in use"} :
        serve' = [serve EXCEPT !.shutdownErr = err,
                               !.ret = IF err = "" THEN "nil"
                                       ELSE stoppedPrefix(serve.transport)]
    /\ sc' = Shutdown(sc)
    /\ UNCHANGED <<env, defaultClient, call, callClient, handlerRan, sent, answered,
                   result, fmtIn, fmtOut, clientIn, clientOut, flight, mutex,
                   thread, lastSet>>

NextServe ==
    \/ ServeCall
    \/ ServeReturn
    \/ Signal
    \/ ShutdownReturns
    \/ ServerDone

SpecServe == InitServe /\ [][NextServe]_vars

----------------------------------------------------------------------------
(* The list tools whose output is capped, on lists around their caps *)

\* a list of n names as Prometheus returns it
itemsOf(n) == [i \in 1 .. n |-> "name_" \o ToString(i)]

\* the list lengths tried: none, one, and those around the two caps
ListTotals ==
    {0, 1, SeriesCap - 1, SeriesCap, SeriesCap + 1,
     ListCap - 1, ListCap, ListCap + 1}

ListUpstreams ==
    {UpFail} \cup {Answer(TRUE, "", "", <<>>, itemsOf(n)) : n \in ListTotals}

InitList ==
    /\ pc = "serving"
    /\ \E e \in QueryEnvironments : Started(e)
    /\ Idle
    /\ NoFormatting
    /\ NoBuilding

ListMetricsCall ==
    /\ call = NoCall
    /\ \E u \in {Absent, Str(PromB)}, up \in ListUpstreams :
        LET params == With(NoParams, "prometheus_url", u)
        IN  Serve("list_metrics",
                  handleListMetrics(params, clientOf(params, defaultClient), up),
                  params, up)

ListLabelValuesCall ==
    /\ call = NoCall
    /\ \E u \in {Absent, Str(PromB)}, up \in ListUpstreams :
        LET params == With(With(NoParams, "prometheus_url", u), "label", Str("job"))
        IN  Serve("list_label_values",
                  handleListLabelValues(params, clientOf(params, defaultClient), up),
                  params, up)

FindSeriesCall ==
    /\ call = NoCall
    /\ \E u \in {Absent, Str(PromB)}, up \in ListUpstreams :
        LET params == With(With(NoParams, "prometheus_url", u), "matches",
                           Array(<<Str("up")>>))
        IN  Serve("find_series",
                  handleFindSeries(params, clientOf(params, defaultClient), up),
                  params, up)

NextList ==
    \/ ListMetricsCall
    \/ ListLabelValuesCall
    \/ FindSeriesCall
    \/ Return

SpecList == InitList /\ [][NextList]_vars

----------------------------------------------------------------------------
(* Properties *)

\* the serialized query result: header line, type line and result
Serialized(resultType, res) ==
    Cat(<<Lit("Query executed successfully."), NL(1), Lit("Result Type: "),
          Lit(resultType), NL(1), Lit("Result: ")>>, res)

\* the required string parameters of a tool
RequiredStrings(tool) ==
    CASE tool = "execute_query" -> {"query"}
      [] tool = "execute_range_query" -> {"query", "start", "end", "step"}
      [] tool = "get_metric_metadata" -> {"metric"}
      [] tool = "list_label_values" -> {"label"}
      [] tool = "query_exemplars" -> {"query", "start", "end"}
      [] OTHER -> {}

\* absent, not a string, or the empty string
MissingString(params, k) == params[k].kind # "string" \/ params[k].s = ""

\* absent, not an array, or the empty array
MissingMatches(params) ==
    params["matches"].kind # "array" \/ params["matches"].items = <<>>

RequiredMissing(c) ==
    \/ \E k \in RequiredStrings(c.tool) : MissingString(c.params, k)
    \/ c.tool = "find_series" /\ MissingMatches(c.params)

\* C1: a call whose required parameter is absent, of the wrong type or empty
\* returns a tool error (IsError true, nil Go error) and sends no request to
\* Prometheus
C1_RequiredParameter ==
    (call # NoCall /\ RequiredMissing(call))
        => (result.IsError /\ result.goErr = "nil" /\ sent = <<>>)

\* execute_range_query was run by its handler on a usable client with only
\* step missing, and the handler refused the call
C1_Witness ==
    /\ call.tool = "execute_range_query"
    /\ handlerRan
    /\ callClient.client
    /\ MissingString(call.params, "step")
    /\ \A k \in {"query", "start", "end"} : ~MissingString(call.params, k)
    /\ result.IsError
    /\ sent = <<>>

\* C2: when PROMETHEUS_URL (PROMETHEUS_ORGID) is set and the call's
\* prometheus_url (org_id) parameter differs from it, the client that serves
\* the call uses the value of the environment
C2_EnvironmentWins ==
    handlerRan =>
        /\ (/\ env.PROMETHEUS_URL # ""
            /\ isString(call.params, "prometheus_url")
            /\ asString(call.params, "prometheus_url") # env.PROMETHEUS_URL)
                => callClient.config.URL = env.PROMETHEUS_URL
        /\ (/\ env.PROMETHEUS_ORGID # ""
            /\ isString(call.params, "org_id")
            /\ asString(call.params, "org_id") # env.PROMETHEUS_ORGID)
                => callClient.config.OrgID = env.PROMETHEUS_ORGID

\* the part of a formatted text before the truncation advice
KeptPrefix(out) == Take(out, TextLen(out) - TextLen(TruncationAdvice))

Overlong ==
    /\ pc = "formatted"
    /\ ~fmtIn.unlimited
    /\ TextLen(Serialized(fmtIn.resultType, fmtIn.result)) > MaxResultLength

\* C3 as stated: a serialized result above MaxResultLength bytes, formatted
\* with unlimited false, ends with TruncationAdvice and the prefix kept before
\* it ends at a newline boundary: the byte of the serialized text right after
\* the kept prefix is a newline
C3_EndsAtNewline ==
    Overlong =>
        LET str == Serialized(fmtIn.resultType, fmtIn.result)
            kept == KeptPrefix(fmtOut)
        IN  /\ HasSuffix(fmtOut, TruncationAdvice)
            /\ HasPrefix(str, kept)
            /\ ByteAt(str, TextLen(kept)) = "\n"

\* C3: a serialized result above MaxResultLength bytes, formatted with
\* unlimited false, ends with TruncationAdvice; the prefix kept before it is
\* a prefix of the serialized text that ends right before a newline when the
\* last newline of the first MaxResultLength bytes lies at an index above
\* MaxResultLength - TruncationWindow, and is the first MaxResultLength bytes
\* otherwise
C3_EndsAtNewlineInWindow ==
    Overlong =>
        LET str == Serialized(fmtIn.resultType, fmtIn.result)
            kept == KeptPrefix(fmtOut)
            inWindow == \E i \in (MaxResultLength - TruncationWindow + 1)
                                    .. (MaxResultLength - 1) :
                            ByteAt(str, i) = "\n"
        IN  /\ HasSuffix(fmtOut, TruncationAdvice)
            /\ HasPrefix(str, kept)
            /\ inWindow => /\ ByteAt(str, TextLen(kept)) = "\n"
                           /\ TextLen(kept) > MaxResultLength - TruncationWindow
                           /\ \A i \in (TextLen(kept) + 1) .. (MaxResultLength - 1) :
                                  ByteAt(str, i) # "\n"
            /\ ~inWindow => TextLen(kept) = MaxResultLength

\* an overlong result was cut at a newline of the window
C3_Witness ==
    /\ Overlong
    /\ TextLen(KeptPrefix(fmtOut)) < MaxResultLength
    /\ ByteAt(Serialized(fmtIn.resultType, fmtIn.result),
              TextLen(KeptPrefix(fmtOut))) = "\n"

\* C4: a serialized result of at most MaxResultLength bytes, formatted with
\* unlimited false, is returned as it is, with no advice
C4_ShortUnchanged ==
    (/\ pc = "formatted"
     /\ ~fmtIn.unlimited
     /\ TextLen(Serialized(fmtIn.resultType, fmtIn.result)) <= MaxResultLength)
        => fmtOut = Serialized(fmtIn.resultType, fmtIn.result)

\* a result of exactly MaxResultLength bytes was formatted
C4_Witness ==
    /\ pc = "formatted"
    /\ ~fmtIn.unlimited
    /\ TextLen(Serialized(fmtIn.resultType, fmtIn.result)) = MaxResultLength
    /\ fmtOut = Serialized(fmtIn.resultType, fmtIn.result)

QueryTools == {"execute_query", "execute_range_query"}

\* C5: a call to execute_query or execute_range_query with unlimited "true"
\* that Prometheus answers returns the warning followed by the complete
\* serialized result, whatever its length, short ones included, and no advice
C5_UnlimitedComplete ==
    (/\ call.tool \in QueryTools
     /\ call.params["unlimited"] = Str("true")
     /\ answered.ok)
        => /\ result.Text = Cat(warningMsg,
                                Serialized(answered.resultType, answered.data))
           /\ ~HasSuffix(result.Text, TruncationAdvice)
           /\ ~result.IsError

\* an unlimited range query returned a result above MaxResultLength in full
C5_Witness ==
    /\ call.tool = "execute_range_query"
    /\ call.params["unlimited"] = Str("true")
    /\ answered.ok
    /\ TextLen(Serialized(answered.resultType, answered.data)) > MaxResultLength
    /\ TextLen(result.Text) > MaxResultLength + TextLen(warningMsg)

\* the arguments of a query call are valid: its required parameters are
\* non-empty strings and the client accepted them
ValidQuery ==
    /\ call.tool \in QueryTools
    /\ ~RequiredMissing(call)
    /\ call.params["unlimited"] # Str("true")
    /\ answered.ok

\* C6: execute_query with a non-empty query, and execute_range_query with
\* valid arguments, not unlimited, answered with success by Prometheus (an
\* empty vector included), return IsError false, a nil Go error and a text
\* that begins with "Query executed successfully."
C6_QuerySucceeds ==
    ValidQuery
        => /\ ~result.IsError
           /\ result.goErr = "nil"
           /\ HasPrefix(result.Text, <<Lit("Query executed successfully.")>>)

\* execute_query was answered with an empty vector
C6_Witness ==
    /\ ValidQuery
    /\ call.tool = "execute_query"
    /\ answered.resultType = "vector"
    /\ answered.data = <<>>
    /\ ~result.IsError

\* no URL resolves for the call: none in its parameters, none configured
NoURL ==
    /\ call # NoCall
    /\ asString(call.params, "prometheus_url") = ""
    /\ sc.prometheusConfig.URL = ""

\* C7: a call for which no Prometheus URL resolves returns the tool error
\* "Error creating Prometheus client: ..." with IsError true and a nil Go
\* error; the tool's handler does not run and no request is sent
C7_NoURLNoHandler ==
    NoURL
        => /\ result.IsError
           /\ result.goErr = "nil"
           /\ HasPrefix(result.Text, <<Lit("Error creating Prometheus client: ")>>)
           /\ ~handlerRan
           /\ sent = <<>>

\* a call without any connection parameter on a server without default URL
C7_Witness ==
    /\ NoURL
    /\ ~isString(call.params, "prometheus_url")
    /\ ~isString(call.params, "org_id")
    /\ result.IsError
    /\ ~handlerRan

\* the Authorization header the configuration asks for
ExpectedAuthorization(config) ==
    IF config.Token # "" THEN <<"Bearer", config.Token>>
    ELSE IF config.Username # "" /\ config.Password # ""
    THEN <<"Basic", config.Username, config.Password>>
    ELSE <<>>

AuthLayers(c) ==
    {i \in DOMAIN c.roundTripper :
        c.roundTripper[i].kind \in {"bearerTokenRoundTripper",
                                    "basicAuthRoundTripper"}}

\* C8: NewClient attaches at most one authentication scheme: requests carry
\* Bearer when Token is non-empty, also when Username and Password are set,
\* Basic only when Token is empty and Username and Password are both
\* non-empty, and no Authorization header otherwise
C8_OneAuthScheme ==
    /\ pc \in {"built", "used"} => Cardinality(AuthLayers(clientOut)) <= 1
    /\ pc = "used" =>
           \A i \in DOMAIN sent :
               sent[i].Authorization = ExpectedAuthorization(clientIn)

\* a request went out through a client built with token, username and
\* password
C8_Witness ==
    /\ pc = "used"
    /\ clientIn.Token # ""
    /\ clientIn.Username # ""
    /\ clientIn.Password # ""
    /\ sent # <<>>
    /\ sent[1].Authorization = <<"Bearer", clientIn.Token>>

\* C9: a call with org_id and without prometheus_url, on a server with a
\* default URL, is served by a client for the default URL with the org_id of
\* the call
C9_OrgIDOnDefaultURL ==
    (/\ call # NoCall
     /\ isString(call.params, "org_id")
     /\ asString(call.params, "org_id") # ""
     /\ ~isString(call.params, "prometheus_url")
     /\ defaultClient.client)
        => /\ handlerRan
           /\ callClient.client
           /\ callClient.config.URL = sc.prometheusConfig.URL
           /\ callClient.config.OrgID = asString(call.params, "org_id")

\* C10: the client built for a call with prometheus_url or org_id keeps the
\* Username, Password and Token of the server's configuration
C10_CredentialsKept ==
    (/\ handlerRan
     /\ \/ isString(call.params, "prometheus_url")
        \/ isString(call.params, "org_id"))
        => /\ callClient.config.Username = sc.prometheusConfig.Username
           /\ callClient.config.Password = sc.prometheusConfig.Password
           /\ callClient.config.Token = sc.prometheusConfig.Token

\* the text holds the piece
Contains(text, piece) == \E i \in DOMAIN text : text[i] = piece

\* the API call of the call failed: its request went out and Prometheus did
\* not answer it with success
ApiFailed == call # NoCall /\ sent # <<>> /\ ~answered.ok

\* a time argument of the call is no time: start of execute_range_query, end
\* of query_exemplars
TimeUnparsable ==
    /\ handlerRan
    /\ callClient.client
    /\ ~RequiredMissing(call)
    /\ \/ call.tool = "execute_range_query"
          /\ call.params["start"] = Str("yesterday")
       \/ call.tool = "query_exemplars" /\ call.params["end"] = Str("yesterday")

\* C11: for every tool, a failed Prometheus API call (network error, status,
\* timeout) or an unparsable time argument gives a result with IsError true
\* whose text holds the underlying error, and a nil Go error; the server's
\* configuration and default client, which serve the later calls, stay as
\* they were at startup
C11_FailureIsToolError ==
    /\ ApiFailed => /\ result.IsError
                    /\ result.goErr = "nil"
                    /\ Contains(result.Text, Lit(answered.err))
    /\ TimeUnparsable => /\ result.IsError
                         /\ result.goErr = "nil"
                         /\ Contains(result.Text, Lit("parsing time "))
                         /\ Contains(result.Text, Lit("yesterday"))
    /\ sc = NewServerContext(env, EmptyConfig, FALSE)
    /\ defaultClient = NewClient(sc.prometheusConfig)

\* get_config failed upstream on the default client
C11_Witness ==
    /\ ApiFailed
    /\ call.tool = "get_config"
    /\ callClient = defaultClient
    /\ result.IsError
    /\ Contains(result.Text, Lit("server returned HTTP status 500"))

\* C12: when the context of a tool call is cancelled while its API call is in
\* flight, the API call ends with the cancellation: it is not in flight any
\* more, and it does not run on to its own deadline
C12_CancellationEndsCall ==
    flight.incoming = "cancelled" => flight.state \notin {"inflight", "deadline"}

\* the deadline the operation of the tool has by itself
OperationTimeout(tool) ==
    IF tool = "execute_range_query" THEN RangeTimeout ELSE DefaultTimeout

\* the call gives a timeout parameter that is a Go duration
TimeoutGiven ==
    /\ call.tool \in QueryTools
    /\ parseDuration(getStringParam(call.params, "timeout")) >= 0

\* C13: every request runs under the deadline of its operation, 60 seconds
\* for range queries and 30 seconds for the others, whatever the parameters
C13_FixedDeadline ==
    \A i \in DOMAIN sent : sent[i].timeout = OperationTimeout(call.tool)

\* C13 (as amended): the deadline of a request is 60 seconds for range
\* queries and 30 seconds for the others, unless execute_query or
\* execute_range_query is called with a timeout parameter that is a Go
\* duration: then the deadline is that duration
C13_DeadlineUnlessTimeoutGiven ==
    \A i \in DOMAIN sent :
        sent[i].timeout =
            IF TimeoutGiven THEN parseDuration(getStringParam(call.params, "timeout"))
            ELSE OperationTimeout(call.tool)

\* a range query under the deadline the call asked for, and an instant query
\* whose timeout parameter is no duration under the default
C13_Witness ==
    \/ /\ call.tool = "execute_range_query"
       /\ call.params["timeout"] = Str("10s")
       /\ sent # <<>>
       /\ sent[1].timeout = parseDuration("10s")
    \/ /\ call.tool = "execute_query"
       /\ call.params["timeout"] = Str("soon")
       /\ sent # <<>>
       /\ sent[1].timeout = DefaultTimeout

\* the tools that take the optional start_time and end_time filters
TimeFilterTools ==
    {"list_metrics", "list_label_names", "list_label_values", "find_series"}

\* an argument of the call that the client method has to parse is given and
\* does not parse: a time that is not RFC3339, a step that is no duration
ArgumentUnparsable(c) ==
    LET str(k) == getStringParam(c.params, k)
        badTime(k) == ~parseRFC3339(str(k))
    IN  \/ c.tool = "execute_query" /\ str("time") # "" /\ badTime("time")
        \/ /\ c.tool = "execute_range_query"
           /\ badTime("start") \/ badTime("end") \/ parseDuration(str("step")) < 0
        \/ c.tool = "query_exemplars" /\ (badTime("start") \/ badTime("end"))
        \/ /\ c.tool \in TimeFilterTools
           /\ \/ str("start_time") # "" /\ badTime("start_time")
              \/ str("end_time") # "" /\ badTime("end_time")

\* the handler's parameter validation refuses the call: a required string is
\* missing, or matches holds no string
ValidationFails(c) ==
    \/ RequiredMissing(c)
    \/ c.tool = "find_series" /\ extractStringArray(c.params, "matches") = <<>>

\* C14: a tool call sends at most one request to Prometheus: exactly one when
\* the client was built, the required parameters are there and the arguments
\* parse, none otherwise; a failed request is not sent again, and a call that
\* is over leaves no request behind
C14_AtMostOneRequest ==
    /\ Len(sent) <= 1
    /\ call # NoCall =>
          (Len(sent) = 1 <=> /\ handlerRan
                             /\ ~ValidationFails(call)
                             /\ ~ArgumentUnparsable(call))
    /\ call = NoCall => sent = <<>>

\* a range query whose one request failed, and a list_metrics call that sent
\* nothing because its start_time does not parse
C14_Witness ==
    \/ /\ call.tool = "execute_range_query"
       /\ Len(sent) = 1
       /\ ~answered.ok
       /\ result.IsError
    \/ /\ call.tool = "list_metrics"
       /\ handlerRan
       /\ call.params["start_time"] = Str("yesterday")
       /\ sent = <<>>

\* the call gives neither prometheus_url nor org_id
NoOverrides ==
    /\ call # NoCall
    /\ ~isString(call.params, "prometheus_url")
    /\ ~isString(call.params, "org_id")

\* the request is the one the server's configuration asks for
DefaultRequest(req) ==
    /\ req.url = sc.prometheusConfig.URL
    /\ req.XScopeOrgID = IF sc.prometheusConfig.OrgID = "" THEN <<>>
                         ELSE <<sc.prometheusConfig.OrgID>>
    /\ req.Authorization = ExpectedAuthorization(sc.prometheusConfig)

Reading == {t \in Callers : thread[t].pc \in {"read", "runlock"}}
Writing == {t \in Callers : thread[t].pc \in {"write", "unlock"}}

\* no read of a field overlaps a write, reads are under the shared lock and
\* writes under the exclusive lock, and the value IsDebugMode is about to
\* return is the one of the most recently completed SetDebugMode
ContextSafe ==
    /\ Writing # {} => (Reading = {} /\ Cardinality(Writing) = 1)
    /\ Reading \subseteq mutex.readers
    /\ Writing \subseteq {mutex.w}
    /\ \A t \in Callers :
          (thread[t].pc = "runlock" /\ thread[t].op = "IsDebugMode")
              => thread[t].ret = lastSet

\* C16: for any interleaving of SetDebugMode, IsDebugMode, Logger,
\* PrometheusConfig, Context and Shutdown by concurrent callers, no read of a
\* field overlaps a write of it (reads hold the shared lock, writes the
\* exclusive lock), IsDebugMode returns the value of the most recently
\* completed SetDebugMode or the initial value, and every call returns
C16_ThreadSafe ==
    /\ []ContextSafe
    /\ \A t \in Callers : (thread[t].pc # "idle") ~> (thread[t].pc = "idle")

\* IsDebugMode has read the value a completed SetDebugMode(true) left, after a
\* Shutdown, while a writer waits for the reader to leave and another reader
\* sleeps behind that writer
C16_Witness ==
    \E t, u, v \in Callers :
        /\ thread[t].pc = "runlock"
        /\ thread[t].op = "IsDebugMode"
        /\ thread[t].ret
        /\ lastSet
        /\ sc.ctxDone
        /\ thread[u].pc = "lockwait"
        /\ thread[u].op = "SetDebugMode"
        /\ thread[v].pc = "rwait"

\* decimal Unix timestamps
UnixTimes == {"1672531200"}

\* the time parameter of the call is given in one of the two documented forms
TimeInDocumentedForm ==
    /\ call.tool = "execute_query"
    /\ handlerRan
    /\ ~RequiredMissing(call)
    /\ getStringParam(call.params, "time") \in RFC3339Times \cup UnixTimes

\* C17: a time parameter documented as "RFC3339 or Unix timestamp" is accepted
\* in both forms: the query is sent for that time, and only other strings
\* give the "invalid time parameter" error; without the parameter the query
\* is evaluated now
C17_BothTimeForms ==
    /\ TimeInDocumentedForm
          => /\ Len(sent) = 1
             /\ sent[1].args[2] = getStringParam(call.params, "time")
             /\ ~Contains(result.Text, Lit("parsing time "))
    /\ (/\ call.tool = "execute_query"
        /\ handlerRan
        /\ ~RequiredMissing(call)
        /\ getStringParam(call.params, "time") = "")
          => Len(sent) = 1 /\ sent[1].args[2] = "time.Now()"

\* C18: when formatQueryResult truncates, the kept prefix is cut at the last
\* newline of the first 50000 bytes if its index is above 49000, else at
\* exactly 50000 bytes; the kept prefix is 49001 to 50000 bytes long and the
\* returned text is at most 50000 bytes plus the advice
C18_KeptPrefixLength ==
    Overlong =>
        LET str == Serialized(fmtIn.resultType, fmtIn.result)
            kept == KeptPrefix(fmtOut)
            first == Take(str, MaxResultLength)
            last == LastIndexNewline(first)
        IN  /\ kept = IF last > MaxResultLength - TruncationWindow
                      THEN Take(str, last) ELSE first
            /\ TextLen(kept) >= MaxResultLength - TruncationWindow + 1
            /\ TextLen(kept) <= MaxResultLength
            /\ TextLen(fmtOut) <= MaxResultLength + TextLen(TruncationAdvice)

\* the last newline of the first 50000 bytes is at index 49000, on the edge
\* of the window, and the text was cut at 50000 bytes
C18_Witness ==
    /\ Overlong
    /\ LastIndexNewline(Take(Serialized(fmtIn.resultType, fmtIn.result),
                             MaxResultLength))
           = MaxResultLength - TruncationWindow
    /\ TextLen(KeptPrefix(fmtOut)) = MaxResultLength

\* the call did not ask for unlimited output
Limited == call # NoCall /\ getStringParam(call.params, "unlimited") # "true"

\* C19: the truncation rule covers the response of every tool: without
\* unlimited output requested, no response is longer than 50000 bytes plus
\* the advice
C19_EveryToolTruncated ==
    Limited => TextLen(result.Text) <= MaxResultLength + TextLen(TruncationAdvice)

\* C19 (as amended): the truncation rule covers the two query tools only:
\* without unlimited output requested their response is at most 50000 bytes
\* plus the advice; the response of any other tool never carries the advice,
\* and a tool that prints the upstream value prints all of it
C19_OnlyQueriesTruncated ==
    /\ (Limited /\ call.tool \in QueryTools)
          => TextLen(result.Text) <= MaxResultLength + TextLen(TruncationAdvice)
    /\ (call # NoCall /\ call.tool \notin QueryTools)
          => /\ ~HasSuffix(result.Text, TruncationAdvice)
             /\ (call.tool \in {"get_rules", "get_alerts", "get_config", "get_tsdb_stats"}
                    /\ ~result.IsError)
                   => HasSuffix(result.Text, answered.data)

\* get_config returned an upstream value of more than 50000 bytes plus the
\* advice, all of it
C19_Witness ==
    /\ call.tool = "get_config"
    /\ ~result.IsError
    /\ answered = UpLong
    /\ TextLen(result.Text) > MaxResultLength + TextLen(TruncationAdvice)
    /\ HasSuffix(result.Text, answered.data)

\* C20: every request of a client with a non-empty OrgID carries X-Scope-OrgID
\* equal to it, and no request of a client with an empty OrgID carries the
\* header; the org-id layer is the outermost one, so the header is set before
\* the authentication layer sets its own, whichever scheme is in effect
C20_OrgIDHeader ==
    (pc = "used" /\ sent # <<>>) =>
        \A i \in DOMAIN sent :
            IF clientIn.OrgID # ""
            THEN /\ sent[i].XScopeOrgID = <<clientIn.OrgID>>
                 /\ Head(clientOut.roundTripper).kind = "orgIDRoundTripper"
                 /\ Head(sent[i].headerOrder) = "X-Scope-OrgID"
                 /\ sent[i].Authorization = ExpectedAuthorization(clientIn)
            ELSE /\ sent[i].XScopeOrgID = <<>>
                 /\ "X-Scope-OrgID" \notin {sent[i].headerOrder[j] :
                                               j \in DOMAIN sent[i].headerOrder}

\* a request of a client with org-id and basic authentication: the org-id
\* header was set first, the Authorization header after it
C20_Witness ==
    /\ pc = "used"
    /\ sent # <<>>
    /\ clientIn.OrgID = "org-a"
    /\ sent[1].XScopeOrgID = <<"org-a">>
    /\ sent[1].Authorization = <<"Basic", "user", "secret">>
    /\ sent[1].headerOrder = <<"X-Scope-OrgID", "Authorization">>

\* the configuration gives no client: its URL is empty or does not parse
NoAPIClient == clientIn.URL = "" \/ ~urlParses(clientIn.URL)

\* C21: NewClient on a configuration whose URL is empty or rejected by the
\* API library returns a Client without API client; registering the tools
\* with such a configuration returns nil, and every method of the Client
\* returns the error "Prometheus client not initialized" and sends nothing
C21_NilClientRefuses ==
    (pc # "new" /\ NoAPIClient)
        => /\ ~clientOut.client
           /\ clientOut.config = clientIn
           /\ pc = "registered" => (result.goErr = "nil" /\ ~defaultClient.client)
           /\ pc = "used"
                 => /\ result.IsError
                    /\ result.Text = <<Lit("Prometheus client not initialized")>>
                    /\ sent = <<>>

\* GetConfig was called on the Client of a URL that does not parse, after the
\* tools were registered
C21_Witness ==
    /\ pc = "used"
    /\ clientIn.URL = BadURL
    /\ call.tool = "GetConfig"
    /\ ~defaultClient.client
    /\ defaultClient.config.URL = BadURL
    /\ result.Text = <<Lit("Prometheus client not initialized")>>

\* C22: on a shutdown signal the SSE server and the streamable-HTTP server
\* are shut down with a context whose deadline is 30 seconds after the
\* signal; the serve command returns nil if that shutdown succeeds and an
\* error wrapping the shutdown error otherwise
C22_ThirtySecondShutdown ==
    serve.signalled
        => /\ serve.deadline = Duration(30, "s")
           /\ pc = "stopped"
                 => /\ DurationLess(serve.took, Duration(30, "s"))
                          => serve.shutdownErr = ""
                    /\ serve.ret = IF serve.shutdownErr = "" THEN "nil"
                                   ELSE shutdownPrefix(serve.transport)

\* the authentication method a request was sent with
appliedAuth(req) ==
    IF req.Authorization = <<>> THEN "None"
    ELSE IF Head(req.Authorization) = "Bearer" THEN "Bearer token"
    ELSE "Basic auth"

\* C23: for every combination of empty and non-empty Username, Password and
\* Token, the authentication method the serve command reports at startup is
\* the one the requests of the default client are sent with
C23_ReportedAuthApplied ==
    (serve.transport # "" /\ callClient = defaultClient)
        => \A i \in DOMAIN sent : appliedAuth(sent[i]) = serve.auth

\* the cap of a capped list tool
CapOf(tool) == IF tool = "find_series" THEN SeriesCap ELSE ListCap

\* the numbered entries of a list response, as <<number, item>>, and the
\* counts K of its lines "... and K more ..."
Entries(text) ==
    {<<text[j - 1].lit, text[j + 1].lit>> :
        j \in {k \in 2 .. (Len(text) - 1) : text[k] = Lit(". ")}}
MoreLines(text) ==
    {text[j + 1].lit : j \in {k \in 1 .. (Len(text) - 1) : text[k] = Lit("... and ")}}

\* C24: the response of list_metrics, list_label_values (cap 100) and
\* find_series (cap 50) reports the true total in its header, numbers the
\* first min(total, cap) items from 1 in upstream order, and has a line
\* "... and K more ..." if and only if total exceeds the cap, with
\* K = total - cap
C24_CappedList ==
    (call # NoCall /\ ~result.IsError /\ answered.items # <<>>) =>
        LET total == Len(answered.items)
            cap == CapOf(call.tool)
            shown == IF total < cap THEN total ELSE cap
        IN  /\ result.Text[2].lit = ToString(total)
            /\ Entries(result.Text)
                   = {<<ToString(i), answered.items[i]>> : i \in 1 .. shown}
            /\ MoreLines(result.Text)
                   = IF total > cap THEN {ToString(total - cap)} ELSE {}

\* a caller's Shutdown runs its body in this step
ShutdownBody(t) ==
    /\ thread[t].pc = "write"
    /\ thread[t].op = "Shutdown"
    /\ thread'[t].pc = "unlock"

\* C25: Shutdown is idempotent: however many calls are made, one after the
\* other or at once, cancel has been invoked exactly once after any of them
\* (by the first), every call returns nil, and no other field of the
\* ServerContext changes
C25_ShutdownIdempotent ==
    [][\A t \in Callers :
          ShutdownBody(t) =>
              /\ sc'.cancelCalls = 1
              /\ thread'[t].cancelled = (sc.cancelCalls = 0)
              /\ thread'[t].err = "nil"
              /\ sc'.debugMode = sc.debugMode
              /\ sc'.prometheusConfig = sc.prometheusConfig
              /\ sc'.parentDone = sc.parentDone]_vars

\* a second Shutdown has run its body while a third call waits for the lock
C25_Witness ==
    \E t, u \in Callers :
        /\ thread[t].pc = "unlock"
        /\ thread[t].op = "Shutdown"
        /\ ~thread[t].cancelled
        /\ thread[t].err = "nil"
        /\ thread[u].pc = "lock"
        /\ thread[u].op = "Shutdown"
        /\ sc.cancelCalls = 1

\* a caller's SetDebugMode runs its body in this step
SetDebugModeBody(t) ==
    /\ thread[t].pc = "write"
    /\ thread[t].op = "SetDebugMode"
    /\ thread'[t].pc = "unlock"

\* C26: the context of the server is cancelled exactly when Shutdown has run
\* or the parent context has been cancelled; once cancelled it stays so, and
\* SetDebugMode never cancels it
C26_CancelledIffShutdownOrParent ==
    /\ [](sc.ctxDone <=> (sc.cancelCalls > 0 \/ sc.parentDone))
    /\ [][sc.ctxDone => sc'.ctxDone]_vars
    /\ [][\A t \in Callers : SetDebugModeBody(t) => sc'.ctxDone = sc.ctxDone]_vars

\* the parent was cancelled, Shutdown ran afterwards, and a SetDebugMode has
\* run its body since
C26_Witness ==
    /\ sc.ctxDone
    /\ sc.parentDone
    /\ sc.cancelCalls = 1
    /\ \E t \in Callers : thread[t].pc = "unlock" /\ thread[t].op = "SetDebugMode"

\* C27: NewServerContext reads the environment only when the URL given with
\* WithPrometheusConfig is empty: with a non-empty URL the configuration is
\* the supplied one field for field, with an empty URL all five fields are
\* those of the PROMETHEUS_* variables and the other supplied fields are
\* discarded
C27_EnvironmentOnlyWithoutURL ==
    pc = "constructed" =>
        IF clientIn.URL # ""
        THEN /\ sc.prometheusConfig.URL = clientIn.URL
             /\ sc.prometheusConfig.Username = clientIn.Username
             /\ sc.prometheusConfig.Password = clientIn.Password
             /\ sc.prometheusConfig.Token = clientIn.Token
             /\ sc.prometheusConfig.OrgID = clientIn.OrgID
        ELSE /\ sc.prometheusConfig.URL = env.PROMETHEUS_URL
             /\ sc.prometheusConfig.Username = env.PROMETHEUS_USERNAME
             /\ sc.prometheusConfig.Password = env.PROMETHEUS_PASSWORD
             /\ sc.prometheusConfig.Token = env.PROMETHEUS_TOKEN
             /\ sc.prometheusConfig.OrgID = env.PROMETHEUS_ORGID

\* a configuration with credentials and no URL was supplied, and the
\* environment, which names a server without a token, replaced all of it
C27_Witness ==
    /\ pc = "constructed"
    /\ clientIn.URL = ""
    /\ clientIn.Token = "token-a"
    /\ env.PROMETHEUS_URL = PromA
    /\ env.PROMETHEUS_TOKEN = ""
    /\ sc.prometheusConfig.Token = ""

\* the options are empty or cannot be parsed, each of them
Unusable(options) ==
    /\ options.Timeout = "" \/ parseDuration(options.Timeout) < 0
    /\ options.Limit \notin {"0", "20", "50", "100"}
    /\ options.Stats # "all"
    /\ options.LookbackDelta = "" \/ parseDuration(options.LookbackDelta) < 0

\* the parameters of the call without the four options
WithoutOptions(params) ==
    [params EXCEPT !["timeout"] = Absent, !["limit"] = Absent,
                   !["stats"] = Absent, !["lookback_delta"] = Absent]

\* what the handler of the tool returns
handlerOf(tool, params, client, up) ==
    IF tool = "execute_query" THEN handleExecuteQuery(params, client, up)
    ELSE handleExecuteRangeQuery(params, client, up)

\* what the plain method of the tool sends
plainSent(tool, params, client, up) ==
    IF tool = "execute_query"
    THEN ExecuteQuery(client, asString(params, "query"),
                      asString(params, "time"), up).sent
    ELSE ExecuteRangeQuery(client, asString(params, "query"),
                           asString(params, "start"), asString(params, "end"),
                           asString(params, "step"), up).sent

\* C28: the two query paths agree: with options that are all empty or all
\* unparsable the method with options makes the API call of the plain method
\* (same arguments, the fixed deadline of 30 s or 60 s, no API option) and
\* the call returns what it returns without the options
C28_PathsAgree ==
    (call # NoCall /\ handlerRan /\ Unusable(queryOptions(call.params))) =>
        /\ sent = plainSent(call.tool, call.params, callClient, answered)
        /\ result = handlerOf(call.tool, WithoutOptions(call.params),
                              callClient, answered).result
        /\ \A i \in 1 .. Len(sent) :
            /\ sent[i].opts = {}
            /\ sent[i].timeout = IF call.tool = "execute_query"
                                 THEN DefaultTimeout ELSE RangeTimeout

\* a range query whose four options are given and all unparsable took the
\* method with options and was answered
C28_Witness ==
    /\ call.tool = "execute_range_query"
    /\ queryOptions(call.params)
           = [Timeout |-> "soon", Limit |-> "-1", Stats |-> "some",
              LookbackDelta |-> "long"]
    /\ Len(sent) = 1
    /\ sent[1].timeout = RangeTimeout
    /\ ~result.IsError

\* the parameters of the call with every unusable optional parameter removed
Usable(params) ==
    [params EXCEPT
        !["timeout"] = IF @.kind = "string" /\ @.s \in {"10s", "15s", "30s", "1m", "5m"}
                       THEN @ ELSE Absent,
        !["limit"] = IF @.kind = "string" /\ @.s \in {"0", "20", "50", "100"}
                     THEN @ ELSE Absent,
        !["stats"] = IF @ = Str("all") THEN @ ELSE Absent,
        !["lookback_delta"] =
            IF @.kind = "string" /\ @.s \in {"10s", "15s", "30s", "1m", "5m"}
            THEN @ ELSE Absent,
        !["unlimited"] = IF @ = Str("true") THEN @ ELSE Absent]

EmptyOrAbsent(value) == value \in {Absent, Str("")}

\* C30: an empty-string connection parameter is treated like an absent one:
\* a call with prometheus_url "" and/or org_id "" is served by the valid
\* default client, as the call without the two parameters is
C30_EmptyConnectionIsAbsent ==
    (/\ call # NoCall
     /\ defaultClient.client
     /\ EmptyOrAbsent(call.params["prometheus_url"])
     /\ EmptyOrAbsent(call.params["org_id"])) =>
        /\ handlerRan
        /\ callClient = defaultClient
        /\ ~HasPrefix(result.Text, <<Lit("Error creating Prometheus client: ")>>)

====
